---- MODULE Spec2Model ----
(***************************************************************************)
(* Authentication and OAuth integration of the sports-analytics toolkit:   *)
(* AuthManager (src/src/auth/auth_manager.py) and OAuthManager             *)
(* (src/src/auth/oauth.py) over the shared SQLite tables.                  *)
(*                                                                         *)
(* Every SQL statement is one atomic step of the calling request; a        *)
(* request is a sequence of such steps (pc/loc hold its position and its   *)
(* Python locals).  The "Seq" specifications run one request at a time,    *)
(* the "Conc" specifications interleave the requests of two processes.     *)
(* Time is the wall clock in minutes.                                      *)
(***************************************************************************)
EXTENDS Integers, Sequences, FiniteSets, TLC

VARIABLES now, pc, loc, last, history,
          users, fails, lastFailAt, lockSet, overrun,
          refresh_tokens, refresh_issued, swept, retired,
          oauth_states, sources, encryption_key, redeemed,
          reset_confirmed

tokenVars == <<refresh_tokens, refresh_issued, swept, retired>>
authVars == <<users, fails, lastFailAt, lockSet, overrun, tokenVars>>
oauthVars == <<oauth_states, sources, encryption_key, redeemed>>
vars == <<now, pc, loc, last, history, authVars, oauthVars, reset_confirmed>>

----------------------------------------------------------------------------
(* Bounds of the model *)
MaxTime == 20
MaxConcTime == 20
TickStep == 5
MaxAttempts == 6

(* Program constants *)
LockThreshold == 5
LockMinutes == 15

Procs == {"p1", "p2"}
SeqProcs == {"p1"}
UserIds == {"u1", "u2"}
Emails == {"a@x"}
RegisterEmails == {"a@x", "A@x"}
LoginEmails == {"a@x", "b@x"}
Passwords == {"pw1", "pw2"}
RegisterPasswords == {"pw1"}

NoTime == -1
NoUser == [id |-> "none"]
NoRow == [email |-> "none"]
Idle == [op |-> "idle"]

----------------------------------------------------------------------------
(* Password hashing: an irreversible tagged value; verification recomputes *)
_hash_password(password) == <<"argon2", password>>

_verify_password_Plain(plain_password, hashed_password) ==
    hashed_password = <<"plain", plain_password>>

_verify_password(plain_password, hashed_password) ==
    hashed_password = _hash_password(plain_password)

(* SELECT ... FROM users WHERE email = ? : the User object, or NoUser *)
get_user_by_email(email) ==
    IF \E u \in DOMAIN users : users[u].email = email
    THEN LET u == CHOOSE u \in DOMAIN users : users[u].email = email
         IN  [id |-> u, email |-> users[u].email, status |-> users[u].status,
              is_active |-> users[u].is_active]
    ELSE NoUser

RowOf(u) == IF u \in DOMAIN users THEN users[u] ELSE NoRow
PostRow(u) == IF u \in DOMAIN users' THEN users'[u] ELSE NoRow

(* The record of the last completed call, and the snapshots a call takes  *)
(* for it, are history variables; they are kept where history is TRUE     *)
Record(rec) ==
    /\ last' = IF history THEN rec ELSE [op |-> "none"]
    /\ UNCHANGED history

Snap(value, none) == IF history THEN value ELSE none

Return(p, rec) ==
    /\ pc' = [pc EXCEPT ![p] = "idle"]
    /\ loc' = [loc EXCEPT ![p] = Idle]
    /\ Record(rec)

----------------------------------------------------------------------------
(* The clock *)
Tick(limit) ==
    /\ now + TickStep <= limit
    /\ now' = now + TickStep
    /\ UNCHANGED <<pc, loc, last, history, authVars, oauthVars, reset_confirmed>>

(* _generate_user_id: an id no identity has had; which one is immaterial,  *)
(* so the ids are handed out in one fixed order                            *)
_generate_user_id ==
    LET unused == UserIds \ (DOMAIN users \cup retired)
    IN  IF unused = {} THEN {} ELSE {CHOOSE u \in unused : TRUE}

(* create_user: duplicate check, hash, INSERT with status pending_verification *)
create_user(email, password) ==
    /\ \E u \in _generate_user_id :
         IF get_user_by_email(email) # NoUser
         THEN /\ Record([op |-> "create_user", email |-> email, result |-> "ValueError"])
              /\ UNCHANGED users
         ELSE /\ users' = (u :> [email |-> email,
                                 password_hash |-> _hash_password(password),
                                 status |-> "pending_verification",
                                 is_active |-> TRUE,
                                 failed_login_attempts |-> 0,
                                 locked_until |-> NoTime,
                                 last_login |-> NoTime]) @@ users
              /\ Record([op |-> "create_user", email |-> email, password |-> password,
                          result |-> u])
    /\ UNCHANGED <<now, pc, loc, fails, lastFailAt, lockSet, overrun, oauthVars, reset_confirmed, tokenVars>>

EmailUnique_NoConstraint(rows, email) == TRUE

(* email TEXT UNIQUE NOT NULL: the INSERT is accepted *)
EmailUnique(rows, email) == \A u \in DOMAIN rows : rows[u].email # email

(* create_user, statement by statement: the duplicate check *)
create_user_select(p, email, password) ==
    /\ pc[p] = "idle"
    /\ _generate_user_id # {}
    /\ IF get_user_by_email(email) # NoUser
       THEN /\ Record([op |-> "create_user", email |-> email, password |-> password,
                        pre |-> users, post |-> users, result |-> "ValueError"])
            /\ UNCHANGED <<pc, loc>>
       ELSE /\ pc' = [pc EXCEPT ![p] = "create_insert"]
            /\ loc' = [loc EXCEPT ![p] = [op |-> "create_user", email |-> email,
                                          password |-> password]]
            /\ UNCHANGED <<last, history>>
    /\ UNCHANGED <<now, authVars, oauthVars, reset_confirmed>>

(* INSERT INTO users ...; commit; the UNIQUE constraint raises IntegrityError *)
create_user_insert(p) ==
    /\ pc[p] = "create_insert"
    /\ \E u \in _generate_user_id :
         IF EmailUnique(users, loc[p].email)
         THEN /\ users' = (u :> [email |-> loc[p].email,
                                 password_hash |-> _hash_password(loc[p].password),
                                 status |-> "pending_verification",
                                 is_active |-> TRUE,
                                 failed_login_attempts |-> 0,
                                 locked_until |-> NoTime,
                                 last_login |-> NoTime]) @@ users
              /\ Return(p, [op |-> "create_user", email |-> loc[p].email,
                            password |-> loc[p].password, pre |-> users,
                            post |-> users', result |-> u])
         ELSE /\ UNCHANGED users
              /\ Return(p, [op |-> "create_user", email |-> loc[p].email,
                            password |-> loc[p].password, pre |-> users,
                            post |-> users, result |-> "IntegrityError"])
    /\ UNCHANGED <<now, fails, lastFailAt, lockSet, overrun, tokenVars, oauthVars,
                   reset_confirmed>>

(* The external verification / administrative event that moves the status *)
SetStatus(u, status) ==
    /\ u \in DOMAIN users
    /\ users[u].status # status
    /\ users' = [users EXCEPT ![u].status = status]
    /\ Record([op |-> "set_status", uid |-> u])
    /\ UNCHANGED <<now, pc, loc, fails, lastFailAt, lockSet, overrun, oauthVars, reset_confirmed, tokenVars>>

(* update_user with is_active set (the names are not modelled) *)
update_user(u, is_active) ==
    /\ u \in DOMAIN users
    /\ users[u].is_active # is_active
    /\ users' = [users EXCEPT ![u].is_active = is_active]
    /\ Record([op |-> "update_user", uid |-> u])
    /\ UNCHANGED <<now, pc, loc, fails, lastFailAt, lockSet, overrun, oauthVars, reset_confirmed, tokenVars>>

----------------------------------------------------------------------------
(* authenticate_user, statement by statement *)

AuthResult(p, result, post) ==
    [op |-> "authenticate", caller |-> loc[p].caller,
     email |-> loc[p].email, password |-> loc[p].password,
     uid |-> loc[p].user.id, pre |-> loc[p].pre, checkedAt |-> loc[p].checkedAt,
     preFails |-> loc[p].preFails, preLastFailAt |-> loc[p].preLastFailAt,
     verified |-> loc[p].verified, result |-> result,
     returnedAt |-> now, post |-> post]

(* user = self.get_user_by_email(email); if not user: return None.         *)
(* caller is the entry point: authenticate_user itself, or login_user.     *)
call_authenticate_user(p, caller, email, password) ==
    /\ pc[p] = "idle"
    /\ LET user == get_user_by_email(email) IN
       /\ user # NoUser /\ ~_verify_password(password, users[user.id].password_hash)
             => /\ users[user.id].failed_login_attempts < MaxAttempts
                /\ fails[user.id] < MaxAttempts
       /\ IF user = NoUser
          THEN /\ Record([op |-> "authenticate", caller |-> caller,
                           email |-> email, password |-> password,
                           uid |-> "none", pre |-> NoRow, checkedAt |-> NoTime,
                           preFails |-> 0, preLastFailAt |-> NoTime,
                           verified |-> FALSE, result |-> "None",
                           returnedAt |-> now, post |-> NoRow])
               /\ UNCHANGED <<pc, loc>>
          ELSE /\ pc' = [pc EXCEPT ![p] = "is_account_locked"]
               /\ loc' = [loc EXCEPT ![p] =
                            [op |-> "authenticate", caller |-> caller,
                             email |-> email, password |-> password,
                             user |-> user, pre |-> Snap(users[user.id], NoRow),
                             checkedAt |-> NoTime,
                             preFails |-> Snap(fails[user.id], 0),
                             preLastFailAt |-> Snap(lastFailAt[user.id], NoTime),
                             verified |-> FALSE, failed_attempts |-> 0]]
               /\ UNCHANGED <<last, history>>
    /\ UNCHANGED <<now, users, fails, lastFailAt, lockSet, overrun, oauthVars, reset_confirmed, tokenVars>>

authenticate_user(p, email, password) ==
    call_authenticate_user(p, "authenticate_user", email, password)

LockInForce_Inverted(locked_until, t) == locked_until # NoTime /\ t > locked_until

(* The decision of _is_account_locked on the value it selected *)
LockInForce(locked_until, t) == locked_until # NoTime /\ t < locked_until

(* _is_account_locked: SELECT locked_until; a lock in force raises (the    *)
(* caller returns None); an expired one is cleared by a second statement.  *)
(* Then the is_active / status gate on the User object read before.        *)
ActiveGate_FlagOnly(p, l, post) ==
    IF ~l.user.is_active
    THEN Return(p, [AuthResult(p, "None", post) EXCEPT !.checkedAt = l.checkedAt])
    ELSE /\ pc' = [pc EXCEPT ![p] = "verify"]
         /\ loc' = [loc EXCEPT ![p] = l]
         /\ UNCHANGED <<last, history>>

ActiveGate(p, l, post) ==
    IF ~l.user.is_active \/ l.user.status # "active"
    THEN Return(p, [AuthResult(p, "None", post) EXCEPT !.checkedAt = l.checkedAt])
    ELSE /\ pc' = [pc EXCEPT ![p] = "verify"]
         /\ loc' = [loc EXCEPT ![p] = l]
         /\ UNCHANGED <<last, history>>

_is_account_locked(p) ==
    /\ pc[p] = "is_account_locked"
    /\ LET u == loc[p].user.id
           l == [loc[p] EXCEPT !.checkedAt = Snap(now, NoTime)]
       IN  IF u \in DOMAIN users /\ users[u].locked_until # NoTime
           THEN IF LockInForce(users[u].locked_until, now)
                THEN /\ pc' = [pc EXCEPT ![p] = "idle"]
                     /\ loc' = [loc EXCEPT ![p] = Idle]
                     /\ Record([AuthResult(p, "None", users[u]) EXCEPT !.checkedAt = now])
                ELSE /\ pc' = [pc EXCEPT ![p] = "clear_lock"]
                     /\ loc' = [loc EXCEPT ![p] = l]
                     /\ UNCHANGED <<last, history>>
           ELSE ActiveGate(p, l, RowOf(u))
    /\ UNCHANGED <<now, users, fails, lastFailAt, lockSet, overrun, oauthVars, reset_confirmed, tokenVars>>

ClearLock_ResetCounter(row) ==
    [row EXCEPT !.locked_until = NoTime, !.failed_login_attempts = 0]

(* The row after UPDATE users SET locked_until = NULL *)
ClearLock(row) == [row EXCEPT !.locked_until = NoTime]

(* UPDATE users SET locked_until = NULL WHERE id = ? *)
clear_expired_lock(p) ==
    /\ pc[p] = "clear_lock"
    /\ LET u == loc[p].user.id IN
       users' = IF u \in DOMAIN users
                THEN [users EXCEPT ![u] = ClearLock(@)] ELSE users
    /\ ActiveGate(p, loc[p], PostRow(loc[p].user.id))
    /\ UNCHANGED <<now, fails, lastFailAt, lockSet, overrun, oauthVars, reset_confirmed, tokenVars>>

(* SELECT password_hash; self._verify_password(password, stored_hash) *)
verify_password(p) ==
    /\ pc[p] = "verify"
    /\ LET u == loc[p].user.id IN
       IF u \notin DOMAIN users
       THEN /\ Return(p, AuthResult(p, "None", NoRow))
            /\ UNCHANGED <<fails, overrun>>
       ELSE /\ loc' = [loc EXCEPT ![p].verified = Snap(TRUE, FALSE)]
            /\ UNCHANGED <<last, history>>
            /\ IF _verify_password(loc[p].password, users[u].password_hash)
               THEN /\ pc' = [pc EXCEPT ![p] = "reset"]
                    /\ UNCHANGED <<fails, overrun>>
               ELSE /\ pc' = [pc EXCEPT ![p] = "inc_read"]
                    /\ fails' = [fails EXCEPT ![u] = @ + 1]
                    /\ overrun' = [overrun EXCEPT ![u] =
                                     @ \/ (fails[u] >= LockThreshold /\ ~lockSet[u])]
    /\ UNCHANGED <<now, users, lastFailAt, lockSet, oauthVars, reset_confirmed, tokenVars>>

ResetRow_KeepCounter(row) == [row EXCEPT !.locked_until = NoTime]

(* The row after UPDATE users SET failed_login_attempts = 0, locked_until = NULL *)
ResetRow(row) == [row EXCEPT !.failed_login_attempts = 0, !.locked_until = NoTime]

(* _reset_failed_login_attempts *)
_reset_failed_login_attempts(p) ==
    /\ pc[p] = "reset"
    /\ LET u == loc[p].user.id IN
       /\ users' = IF u \in DOMAIN users
                   THEN [users EXCEPT ![u] = ResetRow(@)]
                   ELSE users
       /\ fails' = [fails EXCEPT ![u] = 0]
       /\ lockSet' = [lockSet EXCEPT ![u] = FALSE]
    /\ pc' = [pc EXCEPT ![p] = "last_login"]
    /\ UNCHANGED <<now, loc, last, history, lastFailAt, overrun, oauthVars, reset_confirmed, tokenVars>>

(* _update_last_login; return user (to login_user, which goes on to issue *)
(* the tokens, or to the caller)                                           *)
_update_last_login(p) ==
    /\ pc[p] = "last_login"
    /\ LET u == loc[p].user.id IN
       users' = IF u \in DOMAIN users
                THEN [users EXCEPT ![u].last_login = now] ELSE users
    /\ IF loc[p].caller = "login_user"
       THEN /\ pc' = [pc EXCEPT ![p] = "create_refresh_token"]
            /\ UNCHANGED <<loc, last, history>>
       ELSE Return(p, AuthResult(p, loc[p].user.id, PostRow(loc[p].user.id)))
    /\ UNCHANGED <<now, fails, lastFailAt, lockSet, overrun, oauthVars, reset_confirmed, tokenVars>>

(* _increment_failed_login_attempts: SELECT failed_login_attempts *)
increment_read(p) ==
    /\ pc[p] = "inc_read"
    /\ LET u == loc[p].user.id IN
       IF u \notin DOMAIN users
       THEN Return(p, AuthResult(p, "None", NoRow))
       ELSE /\ loc' = [loc EXCEPT ![p].failed_attempts =
                                     users[u].failed_login_attempts + 1]
            /\ pc' = [pc EXCEPT ![p] = "inc_write"]
            /\ UNCHANGED <<last, history>>
    /\ UNCHANGED <<now, users, fails, lastFailAt, lockSet, overrun, oauthVars, reset_confirmed, tokenVars>>

LockDue_Early(failed_attempts) == failed_attempts >= LockThreshold - 2

(* if failed_attempts >= 5 *)
LockDue(failed_attempts) == failed_attempts >= LockThreshold

FailedAttemptUpdate_NoLock(row, failed_attempts, t) ==
    [row EXCEPT !.failed_login_attempts = failed_attempts]

(* The pair (failed_login_attempts, locked_until) the UPDATE writes *)
FailedAttemptUpdate(row, failed_attempts, t) ==
    IF LockDue(failed_attempts)
    THEN [row EXCEPT !.failed_login_attempts = failed_attempts,
                     !.locked_until = t + LockMinutes]
    ELSE [row EXCEPT !.failed_login_attempts = failed_attempts]

BadCredentials_Distinct == "InvalidPassword"

(* What authenticate_user returns after a failed verification *)
BadCredentials == "None"

(* _increment_failed_login_attempts: the UPDATE; return None *)
increment_write(p) ==
    /\ pc[p] = "inc_write"
    /\ LET u == loc[p].user.id
           n == loc[p].failed_attempts
       IN  /\ users' = IF u \in DOMAIN users
                       THEN [users EXCEPT ![u] = FailedAttemptUpdate(@, n, now)]
                       ELSE users
           /\ lastFailAt' = [lastFailAt EXCEPT ![u] = now]
           /\ lockSet' = [lockSet EXCEPT ![u] = @ \/ n >= LockThreshold]
    /\ Return(p, AuthResult(p, BadCredentials, PostRow(loc[p].user.id)))
    /\ UNCHANGED <<now, fails, overrun, oauthVars, reset_confirmed, tokenVars>>

----------------------------------------------------------------------------
(* Session tokens: JWT access tokens and stored refresh tokens *)

RefreshTokens == {"r1", "r2"}
TokenEmails == {"a@x", "c@x"}
AccessTokenMinutes == 30
RefreshTokenMinutes == 10080
SecretKey == "your-secret-key-change-in-production"

(* Bounds of the session clock: steps of one refresh-token lifetime *)
TokenTickStep == 10080
MaxTokenTime == 20160
MaxConfirms == 2

NoPayload == [sub |-> "none"]
NoAccessToken == [sub |-> "none", exp |-> NoTime, key |-> "none"]

TickSession(limit) ==
    /\ now + TokenTickStep <= limit
    /\ now' = now + TokenTickStep
    /\ UNCHANGED <<pc, loc, last, history, authVars, oauthVars, reset_confirmed>>

_hash_token_Raw(token) == <<"raw", token>>

(* sha256 of the token: an irreversible tagged value *)
_hash_token(token) == <<"sha256", token>>

get_user_by_id_ActiveOnly(user_id) ==
    IF user_id \in DOMAIN users /\ users[user_id].is_active
       /\ users[user_id].status = "active"
       /\ ~LockInForce(users[user_id].locked_until, now)
    THEN [id |-> user_id, email |-> users[user_id].email,
          status |-> users[user_id].status, is_active |-> users[user_id].is_active]
    ELSE NoUser

(* SELECT ... FROM users WHERE id = ? : the User object, or NoUser *)
get_user_by_id(user_id) ==
    IF user_id \in DOMAIN users
    THEN [id |-> user_id, email |-> users[user_id].email,
          status |-> users[user_id].status, is_active |-> users[user_id].is_active]
    ELSE NoUser

create_access_token_Expired(data, t) ==
    [sub |-> data.sub, exp |-> t - 1, key |-> SecretKey]

(* jwt.encode of the payload with exp = utcnow + 30 minutes, signed with   *)
(* the secret key (the email and tenant_id claims are never read back)     *)
create_access_token(data, t) ==
    [sub |-> data.sub, exp |-> t + AccessTokenMinutes, key |-> SecretKey]

verify_access_token_CheckSessions(token, t) ==
    IF /\ token.key = SecretKey /\ t <= token.exp
       /\ \E i \in DOMAIN refresh_tokens :
            refresh_tokens[i].user_id = token.sub /\ ~refresh_tokens[i].is_revoked
    THEN [sub |-> token.sub, exp |-> token.exp]
    ELSE NoPayload

(* jwt.decode: the payload, or None on a bad signature or a passed exp *)
verify_access_token(token, t) ==
    IF token.key = SecretKey /\ t <= token.exp
    THEN [sub |-> token.sub, exp |-> token.exp]
    ELSE NoPayload

(* The access tokens a caller may present at time t: those the manager     *)
(* signs for an identity at some clock value up to t, and forged ones      *)
PresentedAccessTokens(t) ==
    {create_access_token([sub |-> u, email |-> "none"], k * TokenTickStep) :
       u \in UserIds, k \in 0..(t \div TokenTickStep)}
    \cup {[sub |-> u, exp |-> MaxTokenTime + AccessTokenMinutes, key |-> "forged"] :
            u \in UserIds}

(* cursor.fetchone() of SELECT ... WHERE token_hash = ? : the first row, or 0 *)
FirstRow(rows, token_hash) ==
    LET I == {i \in DOMAIN rows : rows[i].token_hash = token_hash}
    IN  IF I = {} THEN 0 ELSE CHOOSE i \in I : \A j \in I : i <= j

verify_refresh_token_NoRevokedCheck(refresh_token, t) ==
    LET i == FirstRow(refresh_tokens, _hash_token(refresh_token))
    IN  IF i = 0 THEN "None"
        ELSE IF t > refresh_tokens[i].expires_at
             THEN "None" ELSE refresh_tokens[i].user_id

(* verify_refresh_token: the user id of the row, or None *)
verify_refresh_token(refresh_token, t) ==
    LET i == FirstRow(refresh_tokens, _hash_token(refresh_token))
    IN  IF i = 0 THEN "None"
        ELSE IF refresh_tokens[i].is_revoked \/ t > refresh_tokens[i].expires_at
             THEN "None" ELSE refresh_tokens[i].user_id

(* The refresh tokens whose row belongs to user_id *)
TokensOf(rows, user_id) ==
    {t \in RefreshTokens :
       \E i \in DOMAIN rows : rows[i].token_hash = _hash_token(t)
                              /\ rows[i].user_id = user_id}

(* secrets.token_urlsafe(32): a value not handed out before; which one is  *)
(* immaterial, so the values are handed out in one fixed order             *)
token_urlsafe ==
    LET unused == RefreshTokens \ refresh_issued
    IN  IF unused = {} THEN {} ELSE {CHOOSE t \in unused : TRUE}

(* login_user: authenticate_user, then the two tokens *)
login_user(p, email, password) ==
    /\ token_urlsafe # {}
    /\ call_authenticate_user(p, "login_user", email, password)

InsertToken_RevokeEarlier(rows, row) ==
    Append([i \in DOMAIN rows |->
              IF rows[i].user_id = row.user_id
              THEN [rows[i] EXCEPT !.is_revoked = TRUE] ELSE rows[i]], row)

(* INSERT INTO refresh_tokens (id, user_id, token_hash, expires_at) *)
InsertToken(rows, row) == Append(rows, row)

(* create_access_token, create_refresh_token (INSERT), return TokenResponse *)
create_refresh_token(p) ==
    /\ pc[p] = "create_refresh_token"
    /\ \E token \in token_urlsafe :
         LET user == loc[p].user
             access_token == create_access_token([sub |-> user.id, email |-> user.email], now)
             row == [user_id |-> user.id, token_hash |-> _hash_token(token),
                     expires_at |-> now + RefreshTokenMinutes, is_revoked |-> FALSE]
         IN  /\ refresh_tokens' = InsertToken(refresh_tokens, row)
             /\ refresh_issued' = refresh_issued \cup {token}
             /\ Return(p, [op |-> "login_user", uid |-> user.id, at |-> now,
                           access_token |-> access_token, refresh_token |-> token,
                           pre_tokens |-> refresh_tokens,
                           post_tokens |-> InsertToken(refresh_tokens, row)])
    /\ UNCHANGED <<now, users, fails, lastFailAt, lockSet, overrun, swept, retired,
                   oauthVars, reset_confirmed>>

(* refresh_access_token: verify_refresh_token, get_user_by_id,             *)
(* create_access_token                                                     *)
refresh_access_token(refresh_token) ==
    /\ LET user_id == verify_refresh_token(refresh_token, now)
           user == IF user_id = "None" THEN NoUser ELSE get_user_by_id(user_id)
           result == IF user = NoUser THEN NoAccessToken
                     ELSE create_access_token([sub |-> user.id, email |-> user.email], now)
       IN  Record([op |-> "refresh_access_token", refresh_token |-> refresh_token,
                      at |-> now, pre_tokens |-> refresh_tokens, pre_users |-> users,
                      swept |-> refresh_token \in swept,
                      again |-> (/\ last.op = "refresh_access_token"
                                 /\ last.refresh_token = refresh_token
                                 /\ last.result # NoAccessToken),
                      result |-> result])
    /\ UNCHANGED <<now, pc, loc, users, fails, lastFailAt, lockSet, overrun,
                   refresh_tokens, refresh_issued, swept, retired, oauthVars, reset_confirmed>>

(* get_current_user: verify_access_token, then get_user_by_id(sub) *)
get_current_user(token) ==
    /\ LET payload == verify_access_token(token, now)
           result == IF payload = NoPayload THEN NoUser ELSE get_user_by_id(payload.sub)
       IN  Record([op |-> "get_current_user", token |-> token, at |-> now,
                   pre_tokens |-> refresh_tokens, pre_users |-> users,
                   swept |-> swept, payload |-> payload, result |-> result])
    /\ UNCHANGED <<now, pc, loc, authVars, oauthVars, reset_confirmed>>

RevokeToken_Toggle(rows, token_hash) ==
    [i \in DOMAIN rows |->
       IF rows[i].token_hash = token_hash
       THEN [rows[i] EXCEPT !.is_revoked = ~@] ELSE rows[i]]

(* UPDATE refresh_tokens SET is_revoked = TRUE WHERE token_hash = ? *)
RevokeToken(rows, token_hash) ==
    [i \in DOMAIN rows |->
       IF rows[i].token_hash = token_hash
       THEN [rows[i] EXCEPT !.is_revoked = TRUE] ELSE rows[i]]

RevokeAll_Nothing(rows, user_id) == rows

(* UPDATE refresh_tokens SET is_revoked = TRUE WHERE user_id = ? *)
RevokeAll(rows, user_id) ==
    [i \in DOMAIN rows |->
       IF rows[i].user_id = user_id
       THEN [rows[i] EXCEPT !.is_revoked = TRUE] ELSE rows[i]]

revoke_refresh_token(refresh_token) ==
    /\ refresh_tokens' = RevokeToken(refresh_tokens, _hash_token(refresh_token))
    /\ Record([op |-> "revoke_refresh_token", refresh_token |-> refresh_token,
               pre_tokens |-> refresh_tokens,
               post_tokens |-> RevokeToken(refresh_tokens, _hash_token(refresh_token))])
    /\ UNCHANGED <<now, pc, loc, users, fails, lastFailAt, lockSet, overrun,
                   refresh_issued, swept, retired, oauthVars, reset_confirmed>>

revoke_all_user_sessions(user_id) ==
    /\ refresh_tokens' = RevokeAll(refresh_tokens, user_id)
    /\ swept' = swept \cup TokensOf(refresh_tokens, user_id)
    /\ Record([op |-> "revoke_all_user_sessions", uid |-> user_id,
               pre_tokens |-> refresh_tokens,
               post_tokens |-> RevokeAll(refresh_tokens, user_id), result |-> "True"])
    /\ UNCHANGED <<now, pc, loc, users, fails, lastFailAt, lockSet, overrun,
                   refresh_issued, retired, oauthVars, reset_confirmed>>

DeleteRow_Keep(rows, user_id) == rows

(* DELETE FROM users WHERE id = ? *)
DeleteRow(rows, user_id) == [u \in DOMAIN rows \ {user_id} |-> rows[u]]

(* delete_user: both statements of its one transaction *)
delete_user(user_id) ==
    /\ refresh_tokens' = RevokeAll(refresh_tokens, user_id)
    /\ users' = DeleteRow(users, user_id)
    /\ retired' = IF user_id \in DOMAIN users THEN retired \cup {user_id} ELSE retired
    /\ Record([op |-> "delete_user", uid |-> user_id, existed |-> user_id \in DOMAIN users,
               pre_tokens |-> refresh_tokens,
               post_tokens |-> RevokeAll(refresh_tokens, user_id), result |-> "True"])
    /\ UNCHANGED <<now, pc, loc, fails, lastFailAt, lockSet, overrun,
                   refresh_issued, swept, oauthVars, reset_confirmed>>

Expired_Inclusive(expires_at, t) == expires_at <= t

(* WHERE expires_at < ? (datetime.now()) of the cleanup DELETEs *)
Expired(expires_at, t) == expires_at < t

(* DELETE FROM refresh_tokens WHERE expires_at < now (the password-reset *)
(* and magic-link tables never hold a row)                               *)
cleanup_expired_tokens ==
    /\ \E i \in DOMAIN refresh_tokens : Expired(refresh_tokens[i].expires_at, now)
    /\ refresh_tokens' = SelectSeq(refresh_tokens,
                                    LAMBDA r : ~Expired(r.expires_at, now))
    /\ Record([op |-> "cleanup_expired_tokens"])
    /\ UNCHANGED <<now, pc, loc, users, fails, lastFailAt, lockSet, overrun,
                   refresh_issued, swept, retired, oauthVars, reset_confirmed>>

----------------------------------------------------------------------------
(* OAuthManager *)

Providers == {"strava", "garmin"}
FlowProviders == {"strava", "garmin", "fitbit"}
StateValues == {"s1", "s2"}
FlowStates == {"s1"}
SourceIds == {"src1", "src2"}
OAuthUsers == {"default_user", "user_2"}
RedirectUris == {"https://app/cb"}
Codes == {"c1"}
Keys == {"k1", "k2"}
StateMinutes == 10
ExpiryHorizonMinutes == 60

(* The athletes table: the one row the schema manager inserts *)
Athletes == {[id |-> "default_athlete", user_id |-> "default_user"]}
AthleteIds == {"default_athlete", "athlete_9"}

(* What a provider's token endpoint may answer; "" and 0 stand for an     *)
(* absent 'refresh_token' / 'expires_at' key                              *)
TokenBundles ==
    { [access_token |-> "at1", refresh_token |-> "rt1", expires_at |-> 60],
      [access_token |-> "at2", refresh_token |-> "", expires_at |-> 0] }
NoTokens == [access_token |-> "none", refresh_token |-> "", expires_at |-> 0]
NoState == [user_id |-> "none"]
NoExchange == [code |-> "none", redirect_uri |-> "none", code_verifier |-> "none"]

(* A TEXT column holding x as it is *)
Raw(x) == [cipher |-> "plaintext", key |-> "none", plain |-> x]

(* json.dumps(tokens).encode(): the text of the bundle, field by field *)
json_dumps(tokens) ==
    <<"access_token", tokens.access_token, "refresh_token", tokens.refresh_token,
      "expires_at", tokens.expires_at>>

(* json.loads(data.decode()) *)
json_loads(text) ==
    [access_token |-> text[2], refresh_token |-> text[4], expires_at |-> text[6]]

(* The HMAC a Fernet token carries over its body, under the sealing key *)
Hmac(key, body) == <<"hmac", key, body>>

(* Fernet under the manager's key, hex encoded: the body, its HMAC, and    *)
(* (for reference only, no operation reads them) the key and the bundle    *)
(* that were sealed                                                        *)
_encrypt_tokens(tokens, key) ==
    [cipher |-> "fernet", key |-> key, plain |-> tokens,
     body |-> json_dumps(tokens), mac |-> Hmac(key, json_dumps(tokens)),
     hex |-> TRUE]

IsCiphertext(v) == v.cipher = "fernet"

CanDecrypt_KeyOnly(encrypted_tokens, key) ==
    IsCiphertext(encrypted_tokens) /\ encrypted_tokens.key = key

(* bytes.fromhex and cipher.decrypt raise nothing: the text is hex and the *)
(* HMAC verifies under the manager's key                                   *)
CanDecrypt(encrypted_tokens, key) ==
    /\ IsCiphertext(encrypted_tokens)
    /\ encrypted_tokens.hex
    /\ encrypted_tokens.mac = Hmac(key, encrypted_tokens.body)

(* _decrypt_tokens: the bundle, or None on any exception *)
_decrypt_tokens(encrypted_tokens, key) ==
    IF CanDecrypt(encrypted_tokens, key)
    THEN json_loads(encrypted_tokens.body) ELSE NoTokens

get_provider_Any(provider_name) == TRUE

get_provider(provider_name) == provider_name \in Providers

PkceVerifier(state) == <<"code_verifier", state>>

(* OAuthManager.__init__ without OAUTH_ENCRYPTION_KEY: a fresh key per start *)
Restart(key) ==
    /\ key # encryption_key
    /\ encryption_key' = key
    /\ Record([op |-> "restart"])
    /\ UNCHANGED <<now, pc, loc, authVars, reset_confirmed, oauth_states, sources, redeemed>>

(* migrate_to_multi_tenant: INSERT OR IGNORE of the default source *)
migrate_to_multi_tenant ==
    /\ "default_source" \notin DOMAIN sources
    /\ sources' = ("default_source" :>
                     [athlete_id |-> "default_athlete", provider |-> "strava",
                      oauth_tokens_encrypted |-> Raw(NoTokens),
                      refresh_token_encrypted |-> Raw(""),
                      expires_at |-> NoTime, last_sync |-> NoTime,
                      status |-> "active"]) @@ sources
    /\ Record([op |-> "migrate"])
    /\ UNCHANGED <<now, pc, loc, authVars, reset_confirmed, oauth_states, encryption_key, redeemed>>

(* hashlib.sha256(code_verifier.encode()).digest().hex() *)
code_challenge(code_verifier) == <<"sha256", "hex", code_verifier>>

(* get_authorization_url: the query parameters of the URL and the verifier *)
(* generated for it                                                        *)
get_authorization_url(redirect_uri, state) ==
    [url |-> [redirect_uri |-> redirect_uri, state |-> state,
              code_challenge |-> code_challenge(PkceVerifier(state)),
              code_challenge_method |-> "S256"],
     code_verifier |-> PkceVerifier(state)]

NoUrl == [state |-> "none"]

(* initiate_oauth_flow *)
initiate_oauth_flow(user_id, provider_name, redirect_uri) ==
    /\ IF ~get_provider(provider_name)
       THEN /\ Record([op |-> "initiate_oauth_flow", user_id |-> user_id,
                        provider |-> provider_name, redirect_uri |-> redirect_uri,
                        at |-> now, preStates |-> oauth_states,
                        postStates |-> oauth_states, auth_url |-> NoUrl,
                        result |-> "None"])
            /\ UNCHANGED oauth_states
       ELSE \E state \in FlowStates \ DOMAIN oauth_states :
            /\ oauth_states' = (state :>
                  [user_id |-> user_id, provider |-> provider_name,
                   code_verifier |->
                       get_authorization_url(redirect_uri, state).code_verifier,
                   redirect_uri |-> redirect_uri,
                   expires_at |-> now + StateMinutes, used |-> FALSE]) @@ oauth_states
            /\ Record([op |-> "initiate_oauth_flow", user_id |-> user_id,
                        provider |-> provider_name, redirect_uri |-> redirect_uri,
                        at |-> now, preStates |-> oauth_states,
                        postStates |-> oauth_states',
                        auth_url |-> get_authorization_url(redirect_uri, state).url,
                        result |-> state])
    /\ UNCHANGED <<now, pc, loc, authVars, reset_confirmed, sources, encryption_key, redeemed>>

StateUsable_NoExpiry(row, t) == ~row.used

(* cleanup_expired_oauth_states: DELETE FROM oauth_states WHERE expires_at < now *)
cleanup_expired_oauth_states ==
    /\ \E s \in DOMAIN oauth_states : Expired(oauth_states[s].expires_at, now)
    /\ oauth_states' =
         [s \in {x \in DOMAIN oauth_states :
                   ~Expired(oauth_states[x].expires_at, now)} |-> oauth_states[s]]
    /\ Record([op |-> "cleanup_expired_oauth_states"])
    /\ UNCHANGED <<now, pc, loc, authVars, reset_confirmed, sources, encryption_key,
                   redeemed>>

(* The test of _verify_oauth_state on the row it selected *)
StateUsable(row, t) == ~(row.used \/ t > row.expires_at)

(* _verify_oauth_state: the state data, or NoState *)
_verify_oauth_state(state, provider_name) ==
    IF /\ state \in DOMAIN oauth_states
       /\ oauth_states[state].provider = provider_name
       /\ StateUsable(oauth_states[state], now)
    THEN [user_id |-> oauth_states[state].user_id,
          provider |-> oauth_states[state].provider,
          code_verifier |-> oauth_states[state].code_verifier,
          redirect_uri |-> oauth_states[state].redirect_uri]
    ELSE NoState

BundlesOf(srcs, athlete_id, provider) ==
    {srcs[i].oauth_tokens_encrypted :
       i \in {j \in DOMAIN srcs : srcs[j].athlete_id = athlete_id
                                  /\ srcs[j].provider = provider}}

FlowResult(p, result, srcs, states) ==
    [op |-> loc[p].op, state |-> loc[p].state, provider |-> loc[p].provider,
     arg |-> loc[p].user_id, preRedeemed |-> loc[p].preRedeemed,
     tokens |-> loc[p].tokens, preKeys |-> loc[p].preKeys,
     postKeys |-> IF loc[p].op = "refresh_oauth_tokens"
                  THEN BundlesOf(srcs, loc[p].user_id, loc[p].provider) ELSE {},
     at |-> loc[p].at, contacted |-> loc[p].contacted,
     preSources |-> loc[p].preSources, postSources |-> srcs,
     preStates |-> loc[p].preStates, postStates |-> states,
     retry |-> loc[p].retry, sent |-> loc[p].sent, result |-> result]

(* complete_oauth_flow: verify the state *)
complete_oauth_flow(p, state, code, provider_name) ==
    /\ pc[p] = "idle"
    /\ LET oauth_state == _verify_oauth_state(state, provider_name) IN
       IF oauth_state = NoState
       THEN /\ Record([op |-> "complete_oauth_flow", state |-> state,
                        provider |-> provider_name, arg |-> "none",
                        preRedeemed |-> Snap(redeemed[state], 0), tokens |-> NoTokens,
                        preKeys |-> {}, postKeys |-> {}, retry |-> FALSE,
                        sent |-> NoExchange,
                        at |-> now, contacted |-> FALSE,
                        preSources |-> sources, postSources |-> sources,
                        preStates |-> oauth_states, postStates |-> oauth_states,
                        result |-> "None"])
            /\ UNCHANGED <<pc, loc>>
       ELSE /\ pc' = [pc EXCEPT ![p] = "exchange"]
            /\ loc' = [loc EXCEPT ![p] =
                         [op |-> "complete_oauth_flow", state |-> state,
                          provider |-> provider_name, user_id |-> oauth_state.user_id,
                          oauth_state |-> oauth_state, code |-> code,
                          sent |-> NoExchange, tokens |-> NoTokens,
                          encrypted_tokens |-> Raw(NoTokens), athlete_id |-> "none",
                          existing_source |-> FALSE,
                          at |-> Snap(now, NoTime), contacted |-> FALSE,
                          preSources |-> Snap(sources, <<>>),
                          preStates |-> Snap(oauth_states, <<>>),
                          preRedeemed |-> Snap(redeemed[state], 0), preKeys |-> {},
                          retry |-> Snap(/\ last.op = "complete_oauth_flow"
                                         /\ last.state = state
                                         /\ last.provider = provider_name
                                         /\ last.contacted /\ last.tokens # NoTokens
                                         /\ last.result = "None", FALSE)]]
            /\ UNCHANGED <<last, history>>
    /\ UNCHANGED <<now, authVars, oauthVars, reset_confirmed>>

ExchangeArguments_OwnVerifier(oauth_state, code) ==
    [code |-> code, redirect_uri |-> oauth_state.redirect_uri,
     code_verifier |-> <<"code_verifier", code>>]

(* provider.exchange_code_for_tokens(code, oauth_state['redirect_uri'],    *)
(* oauth_state['code_verifier']): the fields of the POST that depend on    *)
(* the call                                                                *)
ExchangeArguments(oauth_state, code) ==
    [code |-> code, redirect_uri |-> oauth_state.redirect_uri,
     code_verifier |-> oauth_state.code_verifier]

ExchangeFailed_Never(tokens) == FALSE

(* if not tokens: raise Exception("Failed to exchange code for tokens") *)
ExchangeFailed(tokens) == tokens = NoTokens

(* requests.post(self.token_url, data=data) is given no timeout: when the *)
(* provider never answers, the call does not return                      *)
AwaitForever(p) ==
    /\ pc' = [pc EXCEPT ![p] = "blocked"]
    /\ UNCHANGED <<loc, last, history>>

(* provider.exchange_code_for_tokens: the provider answers, the call fails, *)
(* or no answer ever comes                                                  *)
exchange_code_for_tokens(p) ==
    /\ pc[p] = "exchange"
    /\ \/ \E tokens \in TokenBundles \cup {NoTokens} :
            IF ExchangeFailed(tokens)
            THEN Return(p, [FlowResult(p, "None", sources, oauth_states)
                              EXCEPT !.contacted = TRUE,
                                     !.sent = ExchangeArguments(loc[p].oauth_state,
                                                                loc[p].code)])
            ELSE /\ loc' = [loc EXCEPT ![p].tokens = tokens,
                                       ![p].contacted = Snap(TRUE, FALSE),
                                       ![p].sent =
                                           Snap(ExchangeArguments(loc[p].oauth_state,
                                                                  loc[p].code),
                                                NoExchange)]
                 /\ pc' = [pc EXCEPT ![p] = "store"]
                 /\ UNCHANGED <<last, history>>
       \/ AwaitForever(p)
    /\ UNCHANGED <<now, authVars, oauthVars, reset_confirmed>>

(* SELECT id FROM athletes WHERE user_id = ? *)
_get_athlete_id_for_user(user_id) ==
    IF \E a \in Athletes : a.user_id = user_id
    THEN (CHOOSE a \in Athletes : a.user_id = user_id).id
    ELSE "none"

SourcesOf(athlete_id, provider) ==
    {i \in DOMAIN sources : sources[i].athlete_id = athlete_id
                            /\ sources[i].provider = provider}

StorageFailed_Never(athlete_id) == FALSE

(* if not athlete_id: raise ValueError("No athlete found for user") *)
StorageFailed(athlete_id) == athlete_id = "none"

(* _store_oauth_tokens: encrypt, resolve the athlete of its first argument, *)
(* SELECT id FROM sources WHERE athlete_id = ? AND provider = ?             *)
_store_oauth_tokens(p) ==
    /\ pc[p] = "store"
    /\ LET athlete_id == _get_athlete_id_for_user(loc[p].user_id) IN
       IF StorageFailed(athlete_id)
       THEN Return(p, FlowResult(p, IF loc[p].op = "refresh_oauth_tokens"
                                    THEN "False" ELSE "None", sources, oauth_states))
       ELSE /\ loc' = [loc EXCEPT ![p].athlete_id = athlete_id,
                                  ![p].encrypted_tokens =
                                      _encrypt_tokens(loc[p].tokens, encryption_key),
                                  ![p].existing_source =
                                      (SourcesOf(athlete_id, loc[p].provider) # {})]
            /\ pc' = [pc EXCEPT ![p] = "store_write"]
            /\ UNCHANGED <<last, history>>
    /\ UNCHANGED <<now, authVars, oauthVars, reset_confirmed>>

TokenColumns_KeepBundle(row, encrypted_tokens, tokens) == row

(* The columns both the UPDATE and the INSERT set from the bundle *)
TokenColumns(row, encrypted_tokens, tokens) ==
    [row EXCEPT !.oauth_tokens_encrypted = encrypted_tokens,
                !.refresh_token_encrypted = Raw(tokens.refresh_token),
                !.expires_at = IF tokens.expires_at # 0 THEN tokens.expires_at
                               ELSE NoTime]

(* UPDATE sources ... / INSERT INTO sources ...; commit *)
store_write_source(p) ==
    /\ pc[p] = "store_write"
    /\ LET a == loc[p].athlete_id
           pr == loc[p].provider
       IN  IF loc[p].existing_source
           THEN sources' = [i \in DOMAIN sources |->
                              IF i \in SourcesOf(a, pr)
                              THEN [TokenColumns(sources[i], loc[p].encrypted_tokens,
                                                 loc[p].tokens)
                                      EXCEPT !.last_sync = NoTime, !.status = "active"]
                              ELSE sources[i]]
           ELSE \E id \in SourceIds \ DOMAIN sources :
                  sources' = (id :> TokenColumns(
                                [athlete_id |-> a, provider |-> pr,
                                 oauth_tokens_encrypted |-> Raw(NoTokens),
                                 refresh_token_encrypted |-> Raw(""),
                                 expires_at |-> NoTime, last_sync |-> NoTime,
                                 status |-> "active"],
                                loc[p].encrypted_tokens, loc[p].tokens)) @@ sources
    /\ IF loc[p].op = "refresh_oauth_tokens"
       THEN Return(p, FlowResult(p, "True", sources', oauth_states))
       ELSE /\ pc' = [pc EXCEPT ![p] = "mark_used"]
            /\ UNCHANGED <<loc, last, history>>
    /\ UNCHANGED <<now, authVars, reset_confirmed, oauth_states, encryption_key, redeemed>>

MarkUsed_Unchanged(row) == row

(* The row after UPDATE oauth_states SET used = TRUE *)
MarkUsed(row) == [row EXCEPT !.used = TRUE]

(* _mark_oauth_state_used; return the success dict *)
_mark_oauth_state_used(p) ==
    /\ pc[p] = "mark_used"
    /\ LET state == loc[p].state IN
       /\ oauth_states' = IF state \in DOMAIN oauth_states
                          THEN [oauth_states EXCEPT ![state] = MarkUsed(@)]
                          ELSE oauth_states
       /\ redeemed' = [redeemed EXCEPT ![state] = @ + 1]
    /\ Return(p, FlowResult(p, "success", sources, oauth_states'))
    /\ UNCHANGED <<now, authVars, reset_confirmed, sources, encryption_key>>

Revoke_DropBundle(row) ==
    [row EXCEPT !.status = "revoked", !.oauth_tokens_encrypted = Raw(NoTokens)]

(* The row after UPDATE sources SET status = 'revoked' *)
Revoke(row) == [row EXCEPT !.status = "revoked"]

(* revoke_oauth_access: every row of the pair is updated; returns True *)
revoke_oauth_access(athlete_id, provider) ==
    /\ sources' = [i \in DOMAIN sources |->
                     IF i \in SourcesOf(athlete_id, provider)
                     THEN Revoke(sources[i]) ELSE sources[i]]
    /\ Record([op |-> "revoke_oauth_access", athlete_id |-> athlete_id,
                provider |-> provider, preSources |-> sources,
                postSources |-> sources', result |-> "True"])
    /\ UNCHANGED <<now, pc, loc, authVars, reset_confirmed, oauth_states, encryption_key, redeemed>>

(* get_oauth_tokens: the first matching row, decrypted under the current    *)
(* key; None when there is no row and when decryption fails                 *)
OAuthTokensOf(i) ==
    LET tokens == _decrypt_tokens(sources[i].oauth_tokens_encrypted, encryption_key)
    IN  IF tokens = NoTokens THEN NoTokens
        ELSE [tokens EXCEPT !.refresh_token = sources[i].refresh_token_encrypted.plain,
                            !.expires_at = sources[i].expires_at]

get_oauth_tokens(athlete_id, provider) ==
    /\ \/ /\ SourcesOf(athlete_id, provider) = {}
          /\ Record([op |-> "get_oauth_tokens", athlete_id |-> athlete_id,
                      provider |-> provider, row |-> "none", sealed |-> FALSE,
                      decrypted |-> FALSE, result |-> "None"])
       \/ \E i \in SourcesOf(athlete_id, provider) :
            Record([op |-> "get_oauth_tokens", athlete_id |-> athlete_id,
                     provider |-> provider, row |-> i,
                     sealed |-> IsCiphertext(sources[i].oauth_tokens_encrypted),
                     decrypted |-> CanDecrypt(sources[i].oauth_tokens_encrypted,
                                              encryption_key),
                     result |-> IF OAuthTokensOf(i) = NoTokens THEN "None"
                                ELSE "tokens"])
    /\ UNCHANGED <<now, pc, loc, authVars, oauthVars, reset_confirmed>>

HasRefreshToken_Always(tokens) == TRUE

(* tokens.get('refresh_token') is truthy *)
HasRefreshToken(tokens) == tokens.refresh_token # ""

ExpiresWithinHour_Inclusive(expiry_time, t) == t + ExpiryHorizonMinutes >= expiry_time

(* datetime.now() + timedelta(hours=1) > expiry_time *)
ExpiresWithinHour(expiry_time, t) == t + ExpiryHorizonMinutes > expiry_time

(* The value check_token_expiry returns for the tokens it read *)
NeedsRefresh(tokens, t) ==
    IF tokens = NoTokens \/ tokens.expires_at = NoTime
    THEN TRUE
    ELSE ExpiresWithinHour(tokens.expires_at, t)

(* check_token_expiry: get_oauth_tokens, then the comparison *)
check_token_expiry(athlete_id, provider) ==
    /\ \/ /\ SourcesOf(athlete_id, provider) = {}
          /\ Record([op |-> "check_token_expiry", athlete_id |-> athlete_id,
                      provider |-> provider, row |-> "none", at |-> now,
                      preSources |-> sources, key |-> encryption_key,
                      result |-> NeedsRefresh(NoTokens, now)])
       \/ \E i \in SourcesOf(athlete_id, provider) :
            Record([op |-> "check_token_expiry", athlete_id |-> athlete_id,
                     provider |-> provider, row |-> i, at |-> now,
                     preSources |-> sources, key |-> encryption_key,
                     result |-> NeedsRefresh(OAuthTokensOf(i), now)])
    /\ UNCHANGED <<now, pc, loc, authVars, oauthVars, reset_confirmed>>

(* refresh_oauth_tokens: read the current tokens *)
refresh_oauth_tokens(p, athlete_id, provider) ==
    /\ pc[p] = "idle"
    /\ \/ /\ SourcesOf(athlete_id, provider) = {}
          /\ Record([op |-> "refresh_oauth_tokens", state |-> "none",
                      provider |-> provider, arg |-> athlete_id, preRedeemed |-> 0,
                      tokens |-> NoTokens, preKeys |-> {},
                      postKeys |-> BundlesOf(sources, athlete_id, provider),
                      at |-> now, contacted |-> FALSE,
                      preSources |-> sources, postSources |-> sources,
                      preStates |-> oauth_states, postStates |-> oauth_states,
                      result |-> "False"])
          /\ UNCHANGED <<pc, loc>>
       \/ \E i \in SourcesOf(athlete_id, provider) :
            LET tokens == OAuthTokensOf(i) IN
            IF tokens = NoTokens \/ ~HasRefreshToken(tokens) \/ ~get_provider(provider)
            THEN /\ Record([op |-> "refresh_oauth_tokens", state |-> "none",
                             provider |-> provider, arg |-> athlete_id,
                             preRedeemed |-> 0, tokens |-> NoTokens,
                             preKeys |-> {},
                             postKeys |-> BundlesOf(sources, athlete_id, provider),
                             at |-> now, contacted |-> FALSE,
                             preSources |-> sources, postSources |-> sources,
                             preStates |-> oauth_states, postStates |-> oauth_states,
                             result |-> "False"])
                 /\ UNCHANGED <<pc, loc>>
            ELSE /\ pc' = [pc EXCEPT ![p] = "refresh_call"]
                 /\ loc' = [loc EXCEPT ![p] =
                              [op |-> "refresh_oauth_tokens", state |-> "none",
                               provider |-> provider, user_id |-> athlete_id,
                               oauth_state |-> NoState, tokens |-> NoTokens,
                               encrypted_tokens |-> Raw(NoTokens),
                               athlete_id |-> "none", existing_source |-> FALSE,
                               at |-> Snap(now, NoTime), contacted |-> FALSE,
                               preSources |-> Snap(sources, <<>>),
                               preStates |-> Snap(oauth_states, <<>>),
                               preRedeemed |-> 0, retry |-> FALSE,
                               code |-> "none", sent |-> NoExchange,
                               preKeys |-> Snap({sources[j].oauth_tokens_encrypted :
                                                   j \in SourcesOf(athlete_id, provider)},
                                                {})]]
                 /\ UNCHANGED <<last, history>>
    /\ UNCHANGED <<now, authVars, oauthVars, reset_confirmed>>

(* provider.refresh_tokens: the provider answers, the call fails, or no *)
(* answer ever comes                                                   *)
provider_refresh_tokens(p) ==
    /\ pc[p] = "refresh_call"
    /\ \/ \E new_tokens \in TokenBundles \cup {NoTokens} :
            IF new_tokens = NoTokens
            THEN Return(p, [FlowResult(p, "False", sources, oauth_states)
                              EXCEPT !.contacted = TRUE])
            ELSE /\ loc' = [loc EXCEPT ![p].tokens = new_tokens,
                                       ![p].contacted = Snap(TRUE, FALSE)]
                 /\ pc' = [pc EXCEPT ![p] = "store"]
                 /\ UNCHANGED <<last, history>>
       \/ AwaitForever(p)
    /\ UNCHANGED <<now, authVars, oauthVars, reset_confirmed>>

----------------------------------------------------------------------------
(* Password reset and magic link endpoints *)
ResetTokens == {"t1", "t2"}

(* POST /password-reset/confirm: returns the success message for whatever *)
(* token and password it is sent; nothing is read or written               *)
confirm_password_reset(token, new_password) ==
    /\ reset_confirmed[token] < MaxConfirms
    /\ reset_confirmed' = [reset_confirmed EXCEPT ![token] = @ + 1]
    /\ Record([op |-> "confirm_password_reset", token |-> token,
                result |-> "Password reset successfully"])
    /\ UNCHANGED <<now, pc, loc, authVars, oauthVars>>

(* POST /magic-link/verify: raises 501 inside its own try, which the *)
(* handler turns into a 500                                           *)
verify_magic_link(token) ==
    /\ Record([op |-> "verify_magic_link", token |-> token, result |-> "500"])
    /\ UNCHANGED <<now, pc, loc, authVars, oauthVars, reset_confirmed>>

----------------------------------------------------------------------------
AuthInit ==
    /\ now = 0
    /\ users = <<>>
    /\ pc = [p \in Procs |-> "idle"]
    /\ loc = [p \in Procs |-> Idle]
    /\ last = [op |-> "none"]
    /\ fails = [u \in UserIds |-> 0]
    /\ lastFailAt = [u \in UserIds |-> NoTime]
    /\ lockSet = [u \in UserIds |-> FALSE]
    /\ overrun = [u \in UserIds |-> FALSE]
    /\ refresh_tokens = <<>>
    /\ refresh_issued = {}
    /\ swept = {}
    /\ retired = {}

OAuthInit ==
    /\ oauth_states = <<>>
    /\ sources = <<>>
    /\ encryption_key = "k1"
    /\ redeemed = [s \in StateValues |-> 0]
    /\ reset_confirmed = [t \in ResetTokens |-> 0]

Init == AuthInit /\ OAuthInit /\ history = TRUE

InitConc == AuthInit /\ OAuthInit /\ history = FALSE

AllIdle == \A p \in Procs : pc[p] = "idle"

AuthStep(p) ==
    \/ \E e \in LoginEmails, pw \in Passwords : authenticate_user(p, e, pw)
    \/ _is_account_locked(p)
    \/ clear_expired_lock(p)
    \/ verify_password(p)
    \/ _reset_failed_login_attempts(p)
    \/ _update_last_login(p)
    \/ increment_read(p)
    \/ increment_write(p)

AdminStep ==
    \/ \E e \in Emails, pw \in RegisterPasswords : create_user(e, pw)
    \/ \E u \in UserIds, s \in {"active", "suspended"} : SetStatus(u, s)
    \/ \E u \in UserIds, a \in BOOLEAN : update_user(u, a)

(* One request at a time *)
Next ==
    \/ Tick(MaxTime)
    \/ AllIdle /\ AdminStep
    \/ \E p \in SeqProcs : AuthStep(p)

Spec == Init /\ [][Next]_vars

(* Requests of two processes interleaved statement by statement *)
NextConc ==
    \/ Tick(MaxConcTime)
    \/ AllIdle /\ AdminStep
    \/ \E p \in Procs : AuthStep(p)

SpecConc == InitConc /\ [][NextConc]_vars

OAuthStep(p) ==
    \/ \E s \in StateValues, c \in Codes, pr \in Providers :
         complete_oauth_flow(p, s, c, pr)
    \/ exchange_code_for_tokens(p)
    \/ _store_oauth_tokens(p)
    \/ store_write_source(p)
    \/ _mark_oauth_state_used(p)
    \/ \E a \in AthleteIds, pr \in Providers : refresh_oauth_tokens(p, a, pr)
    \/ provider_refresh_tokens(p)

OAuthAdmin ==
    \/ \E u \in OAuthUsers, pr \in FlowProviders, r \in RedirectUris :
         initiate_oauth_flow(u, pr, r)
    \/ \E a \in AthleteIds, pr \in Providers : get_oauth_tokens(a, pr)
    \/ \E k \in Keys : Restart(k)
    \/ migrate_to_multi_tenant
    \/ \E a \in AthleteIds, pr \in Providers : revoke_oauth_access(a, pr)
    \/ \E a \in AthleteIds, pr \in Providers : check_token_expiry(a, pr)

(* Stored values _decrypt_tokens may be handed: bundles sealed under either *)
(* key, as sealed or altered afterwards, and plaintext left in the column  *)
Alterations == {"intact", "body", "mac", "hex"}

Altered(c, how, other) ==
    CASE how = "intact" -> c
      [] how = "body"   -> [c EXCEPT !.body = json_dumps(other)]
      [] how = "mac"    -> [c EXCEPT !.mac = Hmac(c.key, json_dumps(other))]
      [] how = "hex"    -> [c EXCEPT !.hex = FALSE]

(* _encrypt_tokens then _decrypt_tokens by one manager *)
seal_then_open(tokens) ==
    /\ Record([op |-> "seal_then_open", tokens |-> tokens, key |-> encryption_key,
                result |-> _decrypt_tokens(_encrypt_tokens(tokens, encryption_key),
                                           encryption_key)])
    /\ UNCHANGED <<now, pc, loc, authVars, oauthVars, reset_confirmed>>

(* _decrypt_tokens on a stored value *)
open_stored(tokens, key, how, other) ==
    /\ how # "intact" => other # tokens
    /\ Record([op |-> "_decrypt_tokens", sealed |-> tokens, sealKey |-> key,
                how |-> how, key |-> encryption_key,
                result |-> _decrypt_tokens(
                              Altered(_encrypt_tokens(tokens, key), how, other),
                              encryption_key)])
    /\ UNCHANGED <<now, pc, loc, authVars, oauthVars, reset_confirmed>>

(* _decrypt_tokens on a column that holds plaintext *)
open_plaintext(tokens) ==
    /\ Record([op |-> "_decrypt_tokens", sealed |-> tokens, sealKey |-> "none",
                how |-> "plaintext", key |-> encryption_key,
                result |-> _decrypt_tokens(Raw(tokens), encryption_key)])
    /\ UNCHANGED <<now, pc, loc, authVars, oauthVars, reset_confirmed>>

CipherStep ==
    \/ \E t \in TokenBundles : seal_then_open(t)
    \/ \E t, o \in TokenBundles, k \in Keys, how \in Alterations :
         open_stored(t, k, how, o)
    \/ \E t \in TokenBundles \cup {NoTokens} : open_plaintext(t)
    \/ \E k \in Keys : Restart(k)

(* The token cipher applied to every stored value, over restarts and time *)
NextCipher ==
    \/ Tick(MaxTime)
    \/ CipherStep

SpecCipher == Init /\ [][NextCipher]_vars

RegisterStep(p) ==
    \/ \E e \in RegisterEmails, pw \in RegisterPasswords : create_user_select(p, e, pw)
    \/ create_user_insert(p)

RegisterAuthStep(p) ==
    \/ \E e \in RegisterEmails, pw \in RegisterPasswords : authenticate_user(p, e, pw)
    \/ _is_account_locked(p)
    \/ verify_password(p)
    \/ _reset_failed_login_attempts(p)
    \/ _update_last_login(p)

(* Registrations of two processes interleaved statement by statement, and *)
(* authentication of the registered identities                            *)
NextRegister ==
    \/ \E p \in Procs : RegisterStep(p)
    \/ \E p \in SeqProcs : RegisterAuthStep(p)
    \/ AllIdle /\ \E u \in UserIds : SetStatus(u, "active")

SpecRegister == Init /\ [][NextRegister]_vars

CleanupStep(p) ==
    \/ \E e \in Emails, pw \in RegisterPasswords : login_user(p, e, pw)
    \/ _is_account_locked(p)
    \/ verify_password(p)
    \/ _reset_failed_login_attempts(p)
    \/ _update_last_login(p)
    \/ create_refresh_token(p)
    \/ \E s \in FlowStates, c \in Codes : complete_oauth_flow(p, s, c, "strava")
    \/ exchange_code_for_tokens(p)
    \/ _store_oauth_tokens(p)
    \/ store_write_source(p)
    \/ _mark_oauth_state_used(p)

CleanupAdmin ==
    \/ \E e \in Emails, pw \in RegisterPasswords : create_user(e, pw)
    \/ \E u \in UserIds : SetStatus(u, "active")
    \/ \E t \in RefreshTokens : refresh_access_token(t)
    \/ \E r \in RedirectUris : initiate_oauth_flow("default_user", "strava", r)
    \/ cleanup_expired_tokens
    \/ cleanup_expired_oauth_states

(* Sessions and OAuth flows with the two maintenance calls, one request at *)
(* a time, on the clock of the states and on the clock of the tokens       *)
NextCleanup ==
    \/ Tick(MaxTime)
    \/ TickSession(MaxTokenTime)
    \/ AllIdle /\ CleanupAdmin
    \/ \E p \in SeqProcs : CleanupStep(p)

SpecCleanup == Init /\ [][NextCleanup]_vars

ResetStep ==
    \/ \E t \in ResetTokens, pw \in Passwords : confirm_password_reset(t, pw)
    \/ \E t \in ResetTokens : verify_magic_link(t)

(* The account endpoints with the reset and magic-link endpoints; each *)
(* handler of these is one step, so calls interleave as whole steps    *)
NextResets ==
    \/ Tick(MaxTime)
    \/ AdminStep
    \/ ResetStep

SpecResets == Init /\ [][NextResets]_vars

(* The OAuth broker, one request at a time *)
NextOAuth ==
    \/ Tick(MaxTime)
    \/ AllIdle /\ OAuthAdmin
    \/ \E p \in SeqProcs : OAuthStep(p)

SpecOAuth == Init /\ [][NextOAuth]_vars

(* The statements of a call in progress: the interpreter runs the next one *)
CallStep(p) ==
    \/ exchange_code_for_tokens(p)
    \/ _store_oauth_tokens(p)
    \/ store_write_source(p)
    \/ _mark_oauth_state_used(p)
    \/ provider_refresh_tokens(p)

(* The OAuth broker, one request at a time, every started call running on *)
SpecOAuthLive ==
    InitConc /\ [][NextOAuth]_vars /\ \A p \in SeqProcs : WF_vars(CallStep(p))

(* The OAuth broker, two processes interleaved *)
NextOAuthConc ==
    \/ Tick(MaxConcTime)
    \/ AllIdle /\ OAuthAdmin
    \/ \E p \in Procs : OAuthStep(p)

SpecOAuthConc == InitConc /\ [][NextOAuthConc]_vars

SessionStep(p) ==
    \/ \E e \in TokenEmails, pw \in RegisterPasswords : login_user(p, e, pw)
    \/ _is_account_locked(p)
    \/ verify_password(p)
    \/ _reset_failed_login_attempts(p)
    \/ _update_last_login(p)
    \/ create_refresh_token(p)

SessionAdmin ==
    \/ \E e \in TokenEmails, pw \in RegisterPasswords : create_user(e, pw)
    \/ \E u \in UserIds : SetStatus(u, "active")
    \/ \E t \in RefreshTokens : refresh_access_token(t)
    \/ \E t \in RefreshTokens : revoke_refresh_token(t)
    \/ \E u \in UserIds : revoke_all_user_sessions(u)
    \/ \E u \in UserIds : delete_user(u)
    \/ \E tok \in PresentedAccessTokens(now) : get_current_user(tok)
    \/ cleanup_expired_tokens

(* Sessions, one request at a time *)
NextSessions ==
    \/ TickSession(MaxTokenTime)
    \/ AllIdle /\ SessionAdmin
    \/ \E p \in SeqProcs : SessionStep(p)

SpecSessions == Init /\ [][NextSessions]_vars

(* Sessions of an identity that is locked out, deactivated or suspended *)
RotateStep(p) ==
    \/ \E e \in Emails, pw \in Passwords : login_user(p, e, pw)
    \/ _is_account_locked(p)
    \/ clear_expired_lock(p)
    \/ verify_password(p)
    \/ _reset_failed_login_attempts(p)
    \/ _update_last_login(p)
    \/ increment_read(p)
    \/ increment_write(p)
    \/ create_refresh_token(p)

RotateAdmin ==
    \/ \E e \in Emails, pw \in RegisterPasswords : create_user(e, pw)
    \/ \E u \in UserIds, s \in {"active", "suspended"} : SetStatus(u, s)
    \/ \E u \in UserIds, a \in BOOLEAN : update_user(u, a)
    \/ \E t \in RefreshTokens : refresh_access_token(t)

NextRotate ==
    \/ Tick(MaxTime)
    \/ AllIdle /\ RotateAdmin
    \/ \E p \in SeqProcs : RotateStep(p)

SpecRotate == Init /\ [][NextRotate]_vars

----------------------------------------------------------------------------
(* Properties *)

CorrectPassword(rec) == rec.pre.password_hash = <<"argon2", rec.password>>

AuthCall == last.op = "authenticate" /\ last.uid # "none"

(* C1: once five consecutive password failures of an identity have been    *)
(* recorded, an authenticate call for it whose lock check runs less than   *)
(* 15 minutes after the latest of them returns no identity, whatever the   *)
(* password.                                                               *)
C1_LockedAfterFiveFailures ==
    (AuthCall /\ last.checkedAt # NoTime /\ last.preFails >= 5
       /\ last.checkedAt < last.preLastFailAt + 15)
    => last.result = "None"

C1_Witness ==
    /\ AuthCall /\ last.checkedAt # NoTime /\ last.preFails >= 5
    /\ last.checkedAt < last.preLastFailAt + 15
    /\ CorrectPassword(last)
    /\ last.pre.status = "active" /\ last.pre.is_active
    /\ last.result = "None"

(* C2: concurrent authenticate calls count every failed verification in    *)
(* failed_login_attempts (once no call is between its verification and its *)
(* counter write), and no sixth failed verification completes before a     *)
(* lock has been set.                                                      *)
C2_AtomicCounterAndLock ==
    \A u \in DOMAIN users :
      /\ ~overrun[u]
      /\ (\A p \in Procs : pc[p] \notin {"inc_read", "inc_write"})
           => users[u].failed_login_attempts = fails[u]

(* C3 as claimed: authenticate with the registered password, with no       *)
(* failed attempt since registration, returns the registered identity.     *)
C3_RegisterThenAuthenticate ==
    (AuthCall /\ CorrectPassword(last) /\ last.preFails = 0)
    => last.result = last.uid

(* C3 as amended: the same for an identity whose status has been set to    *)
(* active and whose active flag is set.                                    *)
C3_ActiveRegisterThenAuthenticate ==
    (AuthCall /\ CorrectPassword(last) /\ last.preFails = 0
       /\ last.pre.status = "active" /\ last.pre.is_active)
    => last.result = last.uid

C3_Witness ==
    /\ AuthCall /\ CorrectPassword(last) /\ last.preFails = 0
    /\ last.pre.status = "active" /\ last.pre.is_active
    /\ last.pre.last_login = NoTime
    /\ last.result = last.uid

(* C4: of the concurrent complete_oauth_flow calls on one state at most    *)
(* one succeeds.                                                           *)
C4_ConcurrentRedeemOnce == \A s \in StateValues : redeemed[s] <= 1

(* C5: complete_oauth_flow calls made one after the other succeed at most  *)
(* once per state, and a call on a state already redeemed fails.           *)
C5_SequentialRedeemOnce ==
    /\ \A s \in StateValues : redeemed[s] < 2
    /\ (last.op = "complete_oauth_flow" /\ last.preRedeemed >= 1)
         => last.result = "None"

C5_Witness ==
    /\ last.op = "complete_oauth_flow" /\ last.preRedeemed = 1
    /\ last.result = "None"
    /\ last.state \in DOMAIN oauth_states
    /\ now <= oauth_states[last.state].expires_at
    /\ oauth_states[last.state].provider = last.provider

(* C6: a refresh_oauth_tokens call to which the provider returned a new    *)
(* bundle returns True and leaves that bundle, sealed, as the stored one   *)
(* of the (athlete, provider) connection.                                  *)
C6_RefreshReplacesBundle ==
    (last.op = "refresh_oauth_tokens" /\ last.tokens # NoTokens)
    => /\ last.result = "True"
       /\ last.postKeys # {}
       /\ \A c \in last.postKeys : c.cipher = "fernet" /\ c.plain = last.tokens

(* C7: every provider secret in a sources row is Fernet ciphertext.        *)
C7_SecretsAreCiphertext ==
    \A i \in DOMAIN sources :
      /\ sources[i].oauth_tokens_encrypted.plain # NoTokens
           => sources[i].oauth_tokens_encrypted.cipher = "fernet"
      /\ sources[i].refresh_token_encrypted.plain # ""
           => sources[i].refresh_token_encrypted.cipher = "fernet"

(* C8: get_oauth_tokens on a row whose Fernet token does not decrypt returns *)
(* an outcome other than the one it returns when there is no row.          *)
NotConnectedOutcome == "None"

C8_DecryptFailureDistinct ==
    (last.op = "get_oauth_tokens" /\ last.row # "none" /\ last.sealed
       /\ ~last.decrypted)
    => last.result # NotConnectedOutcome

(* C9: an authenticate call whose lock check finds locked_until in the     *)
(* future verifies no password and leaves failed_login_attempts,           *)
(* locked_until and last_login as they were.                               *)
C9_LockedCallChangesNothing ==
    (AuthCall /\ last.checkedAt # NoTime /\ last.pre.locked_until # NoTime
       /\ last.checkedAt < last.pre.locked_until)
    => /\ ~last.verified
       /\ last.post.failed_login_attempts = last.pre.failed_login_attempts
       /\ last.post.locked_until = last.pre.locked_until
       /\ last.post.last_login = last.pre.last_login

C9_Witness ==
    /\ AuthCall /\ last.checkedAt # NoTime /\ last.pre.locked_until # NoTime
    /\ last.checkedAt < last.pre.locked_until
    /\ CorrectPassword(last)
    /\ last.pre.status = "active" /\ last.pre.is_active
    /\ last.post = last.pre

(* C10: an authenticate call with the correct password on an active        *)
(* identity whose lock_until has passed returns the identity and leaves    *)
(* failed_login_attempts 0 and locked_until NULL.                          *)
C10_UnlockAfterExpiry ==
    (AuthCall /\ last.pre.locked_until # NoTime
       /\ last.checkedAt > last.pre.locked_until
       /\ CorrectPassword(last)
       /\ last.pre.status = "active" /\ last.pre.is_active)
    => /\ last.result = last.uid
       /\ last.post.failed_login_attempts = 0
       /\ last.post.locked_until = NoTime

C10_Witness ==
    /\ AuthCall /\ last.pre.locked_until # NoTime
    /\ last.checkedAt > last.pre.locked_until
    /\ CorrectPassword(last)
    /\ last.pre.failed_login_attempts >= 5
    /\ last.result = last.uid
    /\ last.post.failed_login_attempts = 0
    /\ last.post.locked_until = NoTime

(* The lock check of the call found locked_until in the future *)
LockedCall ==
    /\ AuthCall /\ last.checkedAt # NoTime /\ last.pre.locked_until # NoTime
    /\ last.checkedAt < last.pre.locked_until

(* The call passed the lock check and met an identity that is not active *)
InactiveCall ==
    /\ AuthCall /\ ~LockedCall
    /\ (last.pre.status # "active" \/ ~last.pre.is_active)

(* The call verified the password of an active identity and it was wrong *)
WrongPasswordCall ==
    /\ AuthCall /\ ~LockedCall /\ ~InactiveCall /\ ~CorrectPassword(last)

(* C11: authenticate on a locked account, and on an account that is not     *)
(* active, returns an outcome other than the bad-credentials outcome.      *)
C11_LockedAndInactiveDistinct ==
    (LockedCall \/ InactiveCall) => last.result # "None"

(* C12: with no lock in force, authenticate returns for an unknown email   *)
(* the outcome it returns for a known email with a wrong password.         *)
C12_UnknownEmailLikeWrongPassword ==
    /\ (last.op = "authenticate" /\ last.uid = "none") => last.result = "None"
    /\ WrongPasswordCall => last.result = "None"

C12_Witness ==
    /\ WrongPasswordCall /\ last.verified
    /\ last.post.failed_login_attempts = last.pre.failed_login_attempts + 1
    /\ last.result = "None"

(* C13: authenticate returns an identity only if its status is active and  *)
(* its active flag is set, and no authenticate call, the one that sets the *)
(* lock included, changes the status of the identity.                      *)
C13_OnlyActiveAndStatusKept ==
    AuthCall =>
      /\ last.result = last.uid => (last.pre.status = "active" /\ last.pre.is_active)
      /\ last.post # NoRow => last.post.status = last.pre.status

C13_Witness ==
    /\ AuthCall /\ CorrectPassword(last) /\ last.pre.locked_until = NoTime
    /\ last.pre.status = "suspended" /\ last.pre.is_active
    /\ last.result = "None" /\ last.post.status = "suspended"

----------------------------------------------------------------------------
(* Properties of the session tokens *)

RotateCall == last.op = "refresh_access_token"

(* The rows stored for the presented refresh token *)
RowsFor(rows, token) == {i \in DOMAIN rows : rows[i].token_hash = <<"sha256", token>>}

(* A stored row matches the token, is not revoked and has not expired *)
Usable(rows, token, t) ==
    \E i \in RowsFor(rows, token) : ~rows[i].is_revoked /\ t <= rows[i].expires_at

(* C14: refresh_access_token on a refresh token that login_user returned   *)
(* and that is neither revoked nor expired returns an access token which   *)
(* verify_access_token accepts for the identity of the token, however      *)
(* often it has been presented before.                                     *)
C14_RotateKeepsRefreshToken ==
    (RotateCall /\ Usable(last.pre_tokens, last.refresh_token, last.at))
    => /\ last.result # NoAccessToken
       /\ last.result.key = SecretKey /\ last.at <= last.result.exp
       /\ \E i \in RowsFor(last.pre_tokens, last.refresh_token) :
            last.result.sub = last.pre_tokens[i].user_id

C14_Witness ==
    /\ RotateCall /\ last.again /\ last.result # NoAccessToken
    /\ \E i \in RowsFor(last.pre_tokens, last.refresh_token) :
         last.at = last.pre_tokens[i].expires_at

(* C15: a refresh token that was stored for an identity when               *)
(* revoke_all_user_sessions ran for it is refused by every later           *)
(* refresh_access_token call.                                              *)
C15_RevokeAllIsFinal ==
    (RotateCall /\ last.swept) => last.result = NoAccessToken

C15_Witness ==
    /\ RotateCall /\ last.swept /\ last.result = NoAccessToken
    /\ \E i \in RowsFor(last.pre_tokens, last.refresh_token) :
         /\ last.at <= last.pre_tokens[i].expires_at
         /\ last.pre_tokens[i].user_id \in DOMAIN last.pre_users

(* C16: refresh_access_token returns an access token only if a stored row  *)
(* matches the hash of the presented token, is not revoked and has not     *)
(* expired.                                                                *)
C16_RotateOnlyOnValidRow ==
    (RotateCall /\ last.result # NoAccessToken)
    => Usable(last.pre_tokens, last.refresh_token, last.at)

C16_Witness ==
    /\ RotateCall /\ last.result = NoAccessToken
    /\ \E i \in RowsFor(last.pre_tokens, last.refresh_token) :
         /\ ~last.pre_tokens[i].is_revoked
         /\ last.at > last.pre_tokens[i].expires_at
         /\ last.pre_tokens[i].user_id \in DOMAIN last.pre_users

(* C17: a successful login_user appends one unrevoked row and leaves every *)
(* earlier row as it was; revoke_refresh_token revokes the rows of the     *)
(* presented token and leaves every other row as it was.                   *)
C17_LoginAddsRevokeTouchesOne ==
    /\ last.op = "login_user" =>
         /\ Len(last.post_tokens) = Len(last.pre_tokens) + 1
         /\ \A i \in DOMAIN last.pre_tokens : last.post_tokens[i] = last.pre_tokens[i]
         /\ LET row == last.post_tokens[Len(last.post_tokens)]
            IN  /\ row.user_id = last.uid /\ ~row.is_revoked
                /\ row.token_hash = <<"sha256", last.refresh_token>>
                /\ RowsFor(last.pre_tokens, last.refresh_token) = {}
    /\ last.op = "revoke_refresh_token" =>
         /\ DOMAIN last.post_tokens = DOMAIN last.pre_tokens
         /\ \A i \in DOMAIN last.pre_tokens :
              IF i \in RowsFor(last.pre_tokens, last.refresh_token)
              THEN last.post_tokens[i] = [last.pre_tokens[i] EXCEPT !.is_revoked = TRUE]
              ELSE last.post_tokens[i] = last.pre_tokens[i]

C17_Witness ==
    /\ last.op = "revoke_refresh_token"
    /\ \E i, j \in DOMAIN last.post_tokens :
         /\ i \in RowsFor(last.pre_tokens, last.refresh_token)
         /\ ~last.pre_tokens[i].is_revoked /\ last.post_tokens[i].is_revoked
         /\ j # i /\ last.post_tokens[j].user_id = last.post_tokens[i].user_id
         /\ ~last.post_tokens[j].is_revoked /\ now <= last.post_tokens[j].expires_at

(* C18: applying revoke_refresh_token or revoke_all_user_sessions again to *)
(* the table it left changes nothing, and neither turns a revoked row into *)
(* an unrevoked one.                                                       *)
C18_RevokeIdempotent ==
    /\ last.op = "revoke_refresh_token" =>
         /\ RevokeToken(last.post_tokens, _hash_token(last.refresh_token)) = last.post_tokens
         /\ \A i \in DOMAIN last.pre_tokens :
              last.pre_tokens[i].is_revoked => last.post_tokens[i].is_revoked
    /\ last.op = "revoke_all_user_sessions" =>
         /\ RevokeAll(last.post_tokens, last.uid) = last.post_tokens
         /\ \A i \in DOMAIN last.pre_tokens :
              last.pre_tokens[i].is_revoked => last.post_tokens[i].is_revoked

C18_Witness ==
    /\ last.op = "revoke_refresh_token"
    /\ \E i \in RowsFor(last.pre_tokens, last.refresh_token) : last.pre_tokens[i].is_revoked
    /\ last.post_tokens = last.pre_tokens
    /\ refresh_tokens = last.post_tokens

(* C19: delete_user leaves every refresh token of the identity revoked and *)
(* the identity row removed; afterwards no refresh_access_token call with  *)
(* a token of the identity succeeds and no get_current_user call resolves  *)
(* to it.                                                                  *)
C19_DeleteCutsEverySession ==
    /\ last.op = "delete_user" =>
         /\ last.uid \notin DOMAIN users
         /\ \A i \in DOMAIN last.post_tokens :
              last.post_tokens[i].user_id = last.uid => last.post_tokens[i].is_revoked
    /\ RotateCall =>
         \A i \in RowsFor(last.pre_tokens, last.refresh_token) :
           last.pre_tokens[i].user_id \in retired => last.result = NoAccessToken
    /\ (last.op = "get_current_user" /\ last.token.sub \in retired)
         => last.result = NoUser

C19_Witness ==
    /\ last.op = "get_current_user" /\ last.token.sub \in retired
    /\ last.token.key = SecretKey /\ last.at <= last.token.exp
    /\ \E i \in DOMAIN refresh_tokens :
         /\ refresh_tokens[i].user_id = last.token.sub
         /\ refresh_tokens[i].expires_at = last.at + RefreshTokenMinutes
         /\ refresh_tokens[i].is_revoked
    /\ last.result = NoUser

(* C20: the users table holds the argon2 hash of each password and the     *)
(* refresh_tokens table the sha256 hash of each refresh token; no column   *)
(* of either holds the raw value.                                          *)
C20_OnlyHashesStored ==
    /\ \A u \in DOMAIN users : users[u].password_hash[1] = "argon2"
    /\ \A i \in DOMAIN refresh_tokens :
         /\ refresh_tokens[i].token_hash[1] = "sha256"
         /\ refresh_tokens[i].user_id \notin RefreshTokens

C20_Witness ==
    /\ last.op = "login_user"
    /\ last.refresh_token \in RefreshTokens
    /\ \E i \in DOMAIN refresh_tokens :
         refresh_tokens[i].token_hash = <<"sha256", last.refresh_token>>
    /\ \E u \in DOMAIN users : users[u].password_hash = <<"argon2", "pw1">>


(* A complete_oauth_flow call that has returned *)
CompleteCall == last.op = "complete_oauth_flow"

(* C21: complete_oauth_flow returns None, having neither contacted the      *)
(* provider nor changed any source row, when no state row exists for the    *)
(* (state, provider) pair, when the row is used, when the call comes after  *)
(* the row's expiry (ten minutes after its creation), or when the row was   *)
(* created for another provider.                                            *)
C21_InvalidState ==
    CompleteCall =>
      LET rows == last.preStates IN
      ( \/ last.state \notin DOMAIN rows
        \/ rows[last.state].provider # last.provider
        \/ rows[last.state].used
        \/ last.at > rows[last.state].expires_at )
      => /\ last.result = "None"
         /\ ~last.contacted
         /\ last.postSources = last.preSources

C21_Witness ==
    /\ CompleteCall
    /\ last.state \in DOMAIN last.preStates
    /\ last.preStates[last.state].provider = last.provider
    /\ ~last.preStates[last.state].used
    /\ last.at > last.preStates[last.state].expires_at
    /\ last.result = "None"

(* C22: when the provider's code exchange fails, complete_oauth_flow returns *)
(* None and leaves every source row and every state row as it was.           *)
C22_ExchangeFailureChangesNothing ==
    (CompleteCall /\ last.contacted /\ last.tokens = NoTokens)
      => /\ last.result = "None"
         /\ last.postSources = last.preSources
         /\ last.postStates = last.preStates

C22_Witness ==
    /\ CompleteCall /\ last.contacted /\ last.tokens = NoTokens
    /\ last.result = "None"
    /\ last.preSources # <<>>

(* The rows of srcs for the pair *)
RowsOfPair(srcs, athlete_id, provider) ==
    {i \in DOMAIN srcs : srcs[i].athlete_id = athlete_id
                          /\ srcs[i].provider = provider}

(* The row a successful flow must leave *)
StoredBy(row, tokens, key) ==
    /\ row.oauth_tokens_encrypted = _encrypt_tokens(tokens, key)
    /\ row.status = "active"
    /\ row.last_sync = NoTime

C24_OneRowPerPair ==
    \A a \in AthleteIds, pr \in Providers :
      Cardinality(RowsOfPair(sources, a, pr) \ {"default_source"}) <= 1

(* An initiate_oauth_flow call that has returned *)
InitiateCall == last.op = "initiate_oauth_flow"

(* C25: initiate_oauth_flow with a provider name outside the registry       *)
(* returns None and stores no state row; with a registered provider it      *)
(* stores exactly one new row, unused, for the caller's (user, provider,    *)
(* redirect_uri), expiring ten minutes after the call, and keeps the others. *)
C25_InitiateStoresOneState ==
    InitiateCall =>
      IF last.provider \notin Providers
      THEN last.result = "None" /\ last.postStates = last.preStates
      ELSE \E s \in DOMAIN last.postStates \ DOMAIN last.preStates :
             /\ DOMAIN last.postStates = DOMAIN last.preStates \cup {s}
             /\ \A t \in DOMAIN last.preStates :
                  last.postStates[t] = last.preStates[t]
             /\ last.postStates[s].user_id = last.user_id
             /\ last.postStates[s].provider = last.provider
             /\ last.postStates[s].redirect_uri = last.redirect_uri
             /\ ~last.postStates[s].used
             /\ last.postStates[s].expires_at = last.at + 10

C25_Witness ==
    /\ InitiateCall /\ last.provider \in Providers
    /\ last.at > 0
    /\ Cardinality(DOMAIN last.postStates) = 1

C25_WitnessUnknown ==
    /\ InitiateCall /\ last.provider \notin Providers /\ last.result = "None"

(* A refresh_oauth_tokens call that has returned *)
RefreshCall == last.op = "refresh_oauth_tokens"

(* The pair had a source row before the call and no row of it held a *)
(* provider refresh token                                            *)
NoStoredRefreshToken ==
    LET rows == RowsOfPair(last.preSources, last.arg, last.provider) IN
    /\ rows # {}
    /\ \A i \in rows : last.preSources[i].refresh_token_encrypted.plain = ""

ProviderRefreshFailed == last.contacted /\ last.tokens = NoTokens

(* C26: refresh_oauth_tokens returns False and leaves every source row      *)
(* (bundle and status) as it was when the connection holds no provider      *)
(* refresh token, in which case the provider is not contacted, and when the *)
(* provider's refresh call fails.                                           *)
C26_FailedRefreshChangesNothing ==
    RefreshCall =>
      /\ (NoStoredRefreshToken \/ ProviderRefreshFailed)
           => (last.result = "False" /\ last.postSources = last.preSources)
      /\ NoStoredRefreshToken => ~last.contacted

C26_Witness ==
    /\ RefreshCall /\ NoStoredRefreshToken /\ last.result = "False"
    /\ \E i \in RowsOfPair(last.preSources, last.arg, last.provider) :
         CanDecrypt(last.preSources[i].oauth_tokens_encrypted, encryption_key)

C26_WitnessProviderFails ==
    RefreshCall /\ ProviderRefreshFailed /\ last.result = "False"

(* A revoke_oauth_access call that has returned *)
RevokeCall == last.op = "revoke_oauth_access"

(* What the returned revoke_oauth_access call did to the source rows *)
RevokeSetsStatusOnly ==
    RevokeCall =>
      /\ DOMAIN last.postSources = DOMAIN last.preSources
      /\ \A i \in DOMAIN last.preSources :
           last.postSources[i] =
             IF i \in RowsOfPair(last.preSources, last.athlete_id, last.provider)
             THEN [last.preSources[i] EXCEPT !.status = "revoked"]
             ELSE last.preSources[i]

(* The step is the write of a complete_oauth_flow that goes on to succeed *)
CompletionStores(p, athlete_id, provider) ==
    /\ pc[p] = "store_write" /\ pc'[p] = "mark_used"
    /\ loc[p].op = "complete_oauth_flow"
    /\ loc[p].athlete_id = athlete_id
    /\ loc[p].provider = provider

ExpiryCall == last.op = "check_token_expiry"

(* Horizons a caller of token_expiring_soon may pass, in minutes *)
Horizons == {30, 60}

(* The call found a row for the pair whose expiry is known *)
ExpiryKnown ==
    /\ last.row # "none"
    /\ last.preSources[last.row].expires_at # NoTime

(* C28 as stated: for the horizon the caller passes, the call returns true  *)
(* exactly when no token is stored for the pair, or the stored token has no *)
(* known expiry, or the expiry is earlier than now + horizon.               *)
C28_ExpiringWithinHorizon ==
    \A horizon \in Horizons :
      ExpiryCall =>
        ( last.result <=>
            \/ ~ExpiryKnown
            \/ last.preSources[last.row].expires_at < last.at + horizon )

(* C28 as amended: check_token_expiry takes no horizon; it returns true     *)
(* exactly when no row is stored for the pair, or the stored bundle cannot  *)
(* be decrypted, or no expiry is stored, or the expiry is earlier than now  *)
(* + 1 hour, and false otherwise.                                           *)
C28_ExpiringWithinOneHour ==
    ExpiryCall =>
      ( last.result <=>
          \/ ~ExpiryKnown
          \/ ~CanDecrypt(last.preSources[last.row].oauth_tokens_encrypted, last.key)
          \/ last.preSources[last.row].expires_at < last.at + 60 )

C28_Witness ==
    /\ ExpiryCall /\ ExpiryKnown
    /\ CanDecrypt(last.preSources[last.row].oauth_tokens_encrypted, last.key)
    /\ last.preSources[last.row].expires_at = last.at + 60
    /\ ~last.result

C28_WitnessSoon ==
    /\ ExpiryCall /\ ExpiryKnown
    /\ CanDecrypt(last.preSources[last.row].oauth_tokens_encrypted, last.key)
    /\ last.result

(* C29: every complete_oauth_flow and refresh_oauth_tokens call that has    *)
(* started returns to its caller, also when the provider never answers the  *)
(* token request.                                                           *)
C29_CallsTerminate ==
    \A p \in SeqProcs : (pc[p] # "idle") ~> (pc[p] = "idle")

(* C30: a password-reset or magic-link token validates at most once: of the *)
(* consume calls made with one secret, concurrent or one after another, at  *)
(* most one succeeds.                                                       *)
C30_TokenValidatesOnce ==
    \A t \in ResetTokens : reset_confirmed[t] <= 1

(* A create_user call that has returned *)
RegisterCall == last.op = "create_user"

(* C31: under every interleaving of create_user calls no two identities     *)
(* have the same email, and a create_user whose email is already stored     *)
(* when it writes fails and adds no row.                                    *)
C31_EmailsUnique ==
    /\ \A u, v \in DOMAIN users : u # v => users[u].email # users[v].email
    /\ (RegisterCall /\ \E u \in DOMAIN last.pre : last.pre[u].email = last.email)
         => /\ last.result \in {"ValueError", "IntegrityError"}
            /\ last.post = last.pre

C31_Witness ==
    /\ RegisterCall /\ last.result = "IntegrityError"
    /\ \E u \in DOMAIN users : users[u].email = last.email

(* The email with its letters in lower case *)
Lower(email) == IF email = "A@x" THEN "a@x" ELSE email

(* C32: emails are unique regardless of letter case, and authenticate finds *)
(* an identity by its email regardless of letter case: it reports an        *)
(* unknown email only when no identity has that email in any letter case.   *)
C32_EmailsUniqueIgnoringCase ==
    /\ \A u, v \in DOMAIN users :
         u # v => Lower(users[u].email) # Lower(users[v].email)
    /\ (last.op = "authenticate" /\ last.uid = "none")
         => ~\E u \in DOMAIN users : Lower(users[u].email) = Lower(last.email)

C33_WitnessOtherKey ==
    /\ last.op = "_decrypt_tokens" /\ last.how = "intact"
    /\ last.sealKey # last.key /\ last.result = NoTokens

(* A set locked_until goes with a counter, and a run of failed verifications *)
(* since the last successful one, of at least five                          *)
LockImpliesFive ==
    \A u \in DOMAIN users :
      users[u].locked_until # NoTime
        => users[u].failed_login_attempts >= 5 /\ fails[u] >= 5

(* A returned authenticate that succeeded left counter 0, no lock, last_login *)
SuccessResets ==
    (AuthCall /\ last.result = last.uid)
      => /\ last.post.failed_login_attempts = 0
         /\ last.post.locked_until = NoTime
         /\ last.post.last_login # NoTime
         /\ last.post.last_login >= last.checkedAt

(* The step writes a lock for u: it is the UPDATE of a failed authenticate *)
(* that raises the counter by one to five or more                          *)
LockWrittenByFailure(u) ==
    \E p \in Procs :
      /\ pc[p] = "inc_write" /\ loc[p].user.id = u
      /\ u \in DOMAIN users
      /\ users'[u].failed_login_attempts = users[u].failed_login_attempts + 1
      /\ users'[u].failed_login_attempts >= 5

(* C34: locked_until is set only by a failed authenticate that brings the   *)
(* counter to 5 or more, so a set locked_until implies a counter of at      *)
(* least 5; a successful authenticate writes counter 0, no lock and         *)
(* last_login, so a lock needs five failures after the last success.        *)
C34_LockOnlyAfterFiveFailures ==
    [][ /\ LockImpliesFive'
        /\ SuccessResets'
        /\ \A u \in DOMAIN users' :
             ( /\ users'[u].locked_until # NoTime
               /\ (u \notin DOMAIN users
                     \/ users[u].locked_until # users'[u].locked_until) )
             => LockWrittenByFailure(u) ]_vars

C34_Witness ==
    \E u \in DOMAIN users :
      /\ users[u].locked_until # NoTime
      /\ users[u].last_login # NoTime
      /\ users[u].failed_login_attempts >= 5

(* The instants a later call may come at *)
LaterTimes == {now, now + 1, now + TickStep, now + TokenTickStep}

(* The step deleted refresh-token rows: each was past its expiry, and      *)
(* verify_refresh_token answers every token the same, now and later        *)
TokenCleanupHarmless ==
    /\ \A i \in DOMAIN refresh_tokens :
         (\A j \in DOMAIN refresh_tokens' : refresh_tokens'[j] # refresh_tokens[i])
           => refresh_tokens[i].expires_at < now
    /\ \A tok \in RefreshTokens, t \in LaterTimes :
         verify_refresh_token(tok, t)' = verify_refresh_token(tok, t)

(* The step deleted state rows: each was past its expiry, the others are   *)
(* kept as they were, and _verify_oauth_state answers every (state,        *)
(* provider) the same                                                      *)
StateCleanupHarmless ==
    /\ DOMAIN oauth_states' \subseteq DOMAIN oauth_states
    /\ \A s \in DOMAIN oauth_states :
         IF s \in DOMAIN oauth_states'
         THEN oauth_states'[s] = oauth_states[s]
         ELSE /\ oauth_states[s].expires_at < now
              /\ \A t \in LaterTimes : ~StateUsable(oauth_states[s], t)
    /\ \A s \in StateValues, pr \in Providers :
         _verify_oauth_state(s, pr)' = _verify_oauth_state(s, pr)

(* C35: cleanup_expired_tokens and cleanup_expired_oauth_states delete only *)
(* rows whose expiry is in the past, none that verify_refresh_token or      *)
(* _verify_oauth_state would accept now or later, so the outcome of every   *)
(* later refresh_access_token and complete_oauth_flow is the same as        *)
(* without the cleanup.                                                     *)
C35_CleanupDeletesOnlyExpired ==
    [][ /\ refresh_tokens' # refresh_tokens /\ last'.op = "cleanup_expired_tokens"
           => TokenCleanupHarmless
        /\ oauth_states' # oauth_states /\ last'.op = "cleanup_expired_oauth_states"
           => StateCleanupHarmless ]_vars

C35_Witness ==
    /\ last.op = "cleanup_expired_tokens"
    /\ \E i \in DOMAIN refresh_tokens : refresh_tokens[i].expires_at >= now

C35_WitnessStates ==
    /\ last.op = "cleanup_expired_oauth_states"
    /\ oauth_states = <<>>

(* C36: the expiry of a lock clears locked_until and leaves the counter: a  *)
(* failed authenticate on an identity whose counter is still 5 or more      *)
(* (its lock expired, no successful login since) raises the counter by one  *)
(* and locks the identity until 15 minutes after the failure.               *)
C36_RelockAfterExpiry ==
    (WrongPasswordCall /\ last.pre.failed_login_attempts >= 5)
      => /\ last.result = "None"
         /\ last.post.failed_login_attempts = last.pre.failed_login_attempts + 1
         /\ last.post.locked_until = last.returnedAt + 15

C36_Witness ==
    /\ WrongPasswordCall
    /\ last.pre.locked_until # NoTime
    /\ last.checkedAt >= last.pre.locked_until
    /\ last.pre.failed_login_attempts = 5
    /\ last.post.locked_until = last.returnedAt + 15

(* The identity a usable row of the presented token belongs to is locked   *)
(* out, deactivated or not of status active when rotate is called          *)
Barred(row, t) ==
    \/ LockInForce(row.locked_until, t)
    \/ ~row.is_active
    \/ row.status # "active"

(* C37: refresh_access_token on a stored, unrevoked, unexpired refresh     *)
(* token of an existing identity returns an access token for that identity *)
(* also when the identity is locked out, has is_active false or has a      *)
(* status other than active.                                               *)
C37_RotateIgnoresAccountState ==
    RotateCall =>
      \A i \in RowsFor(last.pre_tokens, last.refresh_token) :
        LET u == last.pre_tokens[i].user_id IN
        (/\ ~last.pre_tokens[i].is_revoked /\ last.at <= last.pre_tokens[i].expires_at
         /\ u \in DOMAIN last.pre_users
         /\ Barred(last.pre_users[u], last.at))
        => /\ last.result # NoAccessToken
           /\ last.result.sub = u
           /\ verify_access_token(last.result, last.at) # NoPayload

C37_WitnessLocked ==
    /\ RotateCall /\ last.result # NoAccessToken
    /\ \E u \in DOMAIN last.pre_users :
         /\ last.result.sub = u
         /\ LockInForce(last.pre_users[u].locked_until, last.at)

C37_WitnessDeactivated ==
    /\ RotateCall /\ last.result # NoAccessToken
    /\ \E u \in DOMAIN last.pre_users :
         last.result.sub = u /\ ~last.pre_users[u].is_active

C37_Witness ==
    /\ RotateCall /\ last.result # NoAccessToken
    /\ \E u \in DOMAIN last.pre_users :
         last.result.sub = u /\ last.pre_users[u].status = "suspended"

CurrentUserCall == last.op = "get_current_user"

(* Every refresh token stored for the identity is revoked *)
SessionsRevoked(rows, user_id) ==
    /\ \E i \in DOMAIN rows : rows[i].user_id = user_id
    /\ \A i \in DOMAIN rows : rows[i].user_id = user_id => rows[i].is_revoked

(* C38: revoke_refresh_token and revoke_all_user_sessions act on refresh   *)
(* tokens only: an access token signed for an existing identity whose      *)
(* refresh tokens are all revoked is accepted by verify_access_token and   *)
(* get_current_user resolves it to the identity, as long as its exp has    *)
(* not passed.                                                             *)
C38_AccessTokenOutlivesRevocation ==
    (/\ CurrentUserCall
     /\ last.token.key = SecretKey /\ last.at <= last.token.exp
     /\ last.token.sub \in DOMAIN last.pre_users
     /\ SessionsRevoked(last.pre_tokens, last.token.sub))
    => /\ last.payload # NoPayload /\ last.payload.sub = last.token.sub
       /\ last.result # NoUser /\ last.result.id = last.token.sub

(* The access token of a login whose refresh token was revoked by          *)
(* revoke_refresh_token                                                    *)
C38_Witness ==
    /\ CurrentUserCall /\ last.result # NoUser
    /\ SessionsRevoked(last.pre_tokens, last.token.sub)
    /\ \E i \in DOMAIN last.pre_tokens :
         /\ last.pre_tokens[i].user_id = last.token.sub
         /\ last.pre_tokens[i].expires_at - RefreshTokenMinutes
              = last.token.exp - AccessTokenMinutes
    /\ TokensOf(last.pre_tokens, last.token.sub) \cap last.swept = {}

(* The same after revoke_all_user_sessions *)
C38_WitnessRevokeAll ==
    /\ CurrentUserCall /\ last.result # NoUser
    /\ SessionsRevoked(last.pre_tokens, last.token.sub)
    /\ TokensOf(last.pre_tokens, last.token.sub) \subseteq last.swept

(* The exchange returned a bundle and the storage raised: the identity of  *)
(* the state has no athlete                                                *)
StorageFailure ==
    /\ CompleteCall /\ last.contacted /\ last.tokens # NoTokens
    /\ _get_athlete_id_for_user(last.arg) = "none"

(* C39: when _store_oauth_tokens fails after a successful code exchange,   *)
(* complete_oauth_flow returns None, no source row is created or changed   *)
(* and the state row stays as it was, unused; the same state presented     *)
(* again before its expiry passes the verification and reaches the         *)
(* provider again.                                                         *)
C39_StorageFailureKeepsState ==
    /\ StorageFailure
         => /\ last.result = "None"
            /\ last.postSources = last.preSources
            /\ last.postStates = last.preStates
            /\ last.state \in DOMAIN last.postStates
            /\ ~last.postStates[last.state].used
    /\ (CompleteCall /\ last.retry /\ last.state \in DOMAIN last.preStates
         /\ last.at <= last.preStates[last.state].expires_at)
         => last.contacted

C39_Witness ==
    /\ StorageFailure /\ last.retry
    /\ last.result = "None" /\ last.preSources # <<>>
    /\ ~last.postStates[last.state].used

(* C40: complete_oauth_flow uses what initiate_oauth_flow recorded: the    *)
(* state row holds the verifier whose challenge is in the authorization    *)
(* URL together with the URL's redirect URI; the code exchange sends the   *)
(* redirect URI and the verifier of the state row; and a successful call   *)
(* writes the connection of the athlete of the row's user_id and leaves    *)
(* the rows of every other athlete as they were.                           *)
C40_FlowUsesStateRow ==
    /\ (InitiateCall /\ last.result # "None")
         => LET row == last.postStates[last.result] IN
            /\ last.auth_url.state = last.result
            /\ last.auth_url.redirect_uri = row.redirect_uri
            /\ last.auth_url.code_challenge = code_challenge(row.code_verifier)
            /\ row.user_id = last.user_id
    /\ (CompleteCall /\ last.contacted)
         => LET row == last.preStates[last.state]
                athlete == _get_athlete_id_for_user(row.user_id)
            IN  /\ last.sent.redirect_uri = row.redirect_uri
                /\ last.sent.code_verifier = row.code_verifier
                /\ last.arg = row.user_id
                /\ \A i \in DOMAIN last.postSources :
                      last.postSources[i].athlete_id # athlete
                        => /\ i \in DOMAIN last.preSources
                           /\ last.postSources[i] = last.preSources[i]
                /\ last.result = "success"
                     => \E i \in RowsOfPair(last.postSources, athlete, last.provider) :
                          StoredBy(last.postSources[i], last.tokens,
                                   last.postSources[i].oauth_tokens_encrypted.key)

C40_Witness ==
    /\ CompleteCall /\ last.contacted /\ last.result = "success"
    /\ last.sent.code_verifier = last.preStates[last.state].code_verifier
    /\ last.sent.redirect_uri \in RedirectUris
    /\ last.arg = "default_user"
    /\ RowsOfPair(last.postSources, "default_athlete", last.provider) # {}
====
